---- MODULE Spec2Model ----
(***************************************************************************)
(* Discretized-equation assembly and nonlinear-solve orchestration of the  *)
(* Genius device simulator: region residual/Jacobian assembly over mesh    *)
(* edges, boundary preprocessing (row-surgery triples), row surgery,       *)
(* boundary equation assembly, scaling, and the state update, run SPMD on  *)
(* n_processors ranks.                                                     *)
(*                                                                         *)
(* Numbers are integers: potentials are in tenths of a volt, all other     *)
(* quantities in their own integer unit.  The scaling vector L holds       *)
(* reciprocals, so it is kept by its denominators (L[i] = 1/Ld[i]).        *)
(***************************************************************************)
EXTENDS Integers, Sequences, FiniteSets, TLC

\* ------------------------------------------------------------------------
\* Bounds of the model
\* ------------------------------------------------------------------------
MaxRanks == 2       \* number of process ranks explored: 1..MaxRanks
MaxIter  == 1       \* Newton trial steps per solve

\* ------------------------------------------------------------------------
\* Small helpers
\* ------------------------------------------------------------------------
RECURSIVE SumSeq(_)
SumSeq(s) == IF s = <<>> THEN 0 ELSE Head(s) + SumSeq(Tail(s))

RECURSIVE SumOver(_, _)
\* sum of f[k] over the finite set S of keys
SumOver(f, S) ==
  IF S = {} THEN 0
  ELSE LET k == CHOOSE k \in S : TRUE IN f[k] + SumOver(f, S \ {k})

Range(s) == { s[i] : i \in DOMAIN s }

\* ------------------------------------------------------------------------
\* Meshes.  An FVM node is one (root node, region) pair; root nodes that
\* lie on a region interface carry one FVM node per incident region.
\* ("badiface": a homogeneous interface between a semiconductor and a metal
\* region, a combination its functions have no case for.)
\* ------------------------------------------------------------------------
MeshNames == {"metal2", "metal4", "iface2", "iface3", "ohmic", "badiface"}

\* the meshes on which the damping and error-estimate calls are explored
\* ("mixed": a semiconductor region and a metal region, not in contact)
DampingMeshNames == {"metal2", "ohmic", "mixed"}

\* region types of the regions of a mesh, by region index
RegionTypes(m) ==
  CASE m = "metal2" -> << "MetalRegion" >>
    [] m = "metal4" -> << "MetalRegion" >>
    [] m = "iface2" -> << "SemiconductorRegion", "SemiconductorRegion" >>
    [] m = "iface3" -> << "SemiconductorRegion", "SemiconductorRegion",
                          "SemiconductorRegion" >>
    [] m = "ohmic"  -> << "SemiconductorRegion" >>
    [] m = "mixed"  -> << "SemiconductorRegion", "MetalRegion" >>
    [] m = "badiface" -> << "SemiconductorRegion", "MetalRegion" >>

\* the FVM nodes of a mesh, by FVM node index
FvmNodes(m) ==
  CASE m = "metal2" -> << [root |-> 1, region |-> 1], [root |-> 2, region |-> 1] >>
    [] m = "metal4" -> << [root |-> 1, region |-> 1], [root |-> 2, region |-> 1],
                          [root |-> 3, region |-> 1], [root |-> 4, region |-> 1] >>
    [] m = "iface2" -> << [root |-> 1, region |-> 1], [root |-> 2, region |-> 1],
                          [root |-> 2, region |-> 2], [root |-> 3, region |-> 2] >>
    [] m = "iface3" -> << [root |-> 1, region |-> 1], [root |-> 2, region |-> 1],
                          [root |-> 2, region |-> 2], [root |-> 3, region |-> 2],
                          [root |-> 2, region |-> 3], [root |-> 4, region |-> 3] >>
    [] m = "ohmic"  -> << [root |-> 1, region |-> 1], [root |-> 2, region |-> 1],
                          [root |-> 3, region |-> 1] >>
    [] m = "mixed"  -> << [root |-> 1, region |-> 1], [root |-> 2, region |-> 1],
                          [root |-> 3, region |-> 2], [root |-> 4, region |-> 2] >>
    [] m = "badiface" -> << [root |-> 1, region |-> 1], [root |-> 2, region |-> 1],
                            [root |-> 2, region |-> 2], [root |-> 3, region |-> 2] >>

\* the edges of a mesh: both ends in one region, first.root < second.root;
\* area = cv_surface_area, dist = distance between the two ends
Edges(m) ==
  CASE m = "metal2" -> << [first |-> 1, second |-> 2, area |-> 2, dist |-> 1] >>
    [] m = "metal4" -> << [first |-> 1, second |-> 2, area |-> 2, dist |-> 1],
                          [first |-> 2, second |-> 3, area |-> 4, dist |-> 2],
                          [first |-> 3, second |-> 4, area |-> 2, dist |-> 1],
                          [first |-> 1, second |-> 4, area |-> 2, dist |-> 2] >>
    [] m = "iface2" -> << [first |-> 1, second |-> 2, area |-> 2, dist |-> 1],
                          [first |-> 3, second |-> 4, area |-> 2, dist |-> 2] >>
    [] m = "iface3" -> << [first |-> 1, second |-> 2, area |-> 2, dist |-> 1],
                          [first |-> 3, second |-> 4, area |-> 2, dist |-> 2],
                          [first |-> 5, second |-> 6, area |-> 2, dist |-> 1] >>
    [] m = "ohmic"  -> << [first |-> 1, second |-> 2, area |-> 2, dist |-> 1],
                          [first |-> 2, second |-> 3, area |-> 2, dist |-> 2] >>
    [] m = "mixed"  -> << [first |-> 1, second |-> 2, area |-> 2, dist |-> 1],
                          [first |-> 3, second |-> 4, area |-> 2, dist |-> 1] >>
    [] m = "badiface" -> << [first |-> 1, second |-> 2, area |-> 2, dist |-> 1],
                            [first |-> 3, second |-> 4, area |-> 2, dist |-> 1] >>

\* the cells of a semiconductor mesh: each cell lists its edges as
\* (edge index, node1, node2, truncated partial area); a cell may see an
\* edge in the reverse direction of the edge list
Elems(m) ==
  CASE m = "iface2" -> << << [edge |-> 1, n1 |-> 1, n2 |-> 2, tpa |-> 1] >>,
                          << [edge |-> 2, n1 |-> 4, n2 |-> 3, tpa |-> 2] >> >>
    [] m = "iface3" -> << << [edge |-> 1, n1 |-> 1, n2 |-> 2, tpa |-> 1] >>,
                          << [edge |-> 2, n1 |-> 4, n2 |-> 3, tpa |-> 2] >>,
                          << [edge |-> 3, n1 |-> 5, n2 |-> 6, tpa |-> 1] >> >>
    [] m = "ohmic"  -> << << [edge |-> 1, n1 |-> 2, n2 |-> 1, tpa |-> 1] >>,
                          << [edge |-> 1, n1 |-> 1, n2 |-> 2, tpa |-> 1],
                             [edge |-> 2, n1 |-> 3, n2 |-> 2, tpa |-> 2] >> >>
    [] OTHER -> << >>

\* the boundary conditions of a mesh and their boundary (root) nodes
BCs(m) ==
  CASE m = "iface2" -> << [type |-> "HomoInterface", nodes |-> << 2 >>] >>
    [] m = "iface3" -> << [type |-> "HomoInterface", nodes |-> << 2 >>] >>
    [] m = "badiface" -> << [type |-> "HomoInterface", nodes |-> << 2 >>] >>
    [] m = "ohmic"  -> << [type |-> "OhmicContact", nodes |-> << 1, 3 >>] >>
    [] OTHER -> << >>

Roots(m)   == { FvmNodes(m)[f].root : f \in DOMAIN FvmNodes(m) }
FvmIds(m)  == DOMAIN FvmNodes(m)
RegionOf(m, f) == FvmNodes(m)[f].region
TypeOf(m, f)   == RegionTypes(m)[RegionOf(m, f)]

\* every mesh is covered by cells; a metal mesh has one cell per edge
Cells(m) ==
  IF Elems(m) # << >> THEN Elems(m)
  ELSE [ i \in DOMAIN Edges(m) |->
           << [edge |-> i, n1 |-> Edges(m)[i].first, n2 |-> Edges(m)[i].second,
               tpa |-> 1] >> ]

CellNodes(m, c) ==
  UNION { { Cells(m)[c][k].n1, Cells(m)[c][k].n2 } : k \in DOMAIN Cells(m)[c] }

\* neighbours of an FVM node: the other ends of its edges
Neighbors(m, f) ==
  { g \in FvmIds(m) : \E i \in DOMAIN Edges(m) :
        \/ Edges(m)[i].first = f /\ Edges(m)[i].second = g
        \/ Edges(m)[i].first = g /\ Edges(m)[i].second = f }

EdgeBetween(m, f, g) ==
  CHOOSE i \in DOMAIN Edges(m) :
        \/ Edges(m)[i].first = f /\ Edges(m)[i].second = g
        \/ Edges(m)[i].first = g /\ Edges(m)[i].second = f

\* ------------------------------------------------------------------------
\* Unknown layout
\* ------------------------------------------------------------------------
\* number of unknowns per FVM node of a region type (psi, n, p | psi)
n_variables(type) == IF type = "SemiconductorRegion" THEN 3 ELSE 1

\* the unknowns of the FVM nodes of S that precede node f
OffsetBefore(m, S, f) ==
  SumOver([ g \in S |-> n_variables(TypeOf(m, g)) ], { g \in S : g < f })

set_global_offset(m, f) == OffsetBefore(m, FvmIds(m), f)

n_node_dofs(m) == OffsetBefore(m, FvmIds(m), Len(FvmNodes(m)) + 1)

\* boundary conditions that own an external circuit own one scalar slot
HasCircuit(m, b) == BCs(m)[b].type = "OhmicContact"
set_bc_global_offset(m, b) ==
  n_node_dofs(m) + Cardinality({ c \in 1..(b-1) : HasCircuit(m, c) })
n_global_dofs(m) ==
  n_node_dofs(m) + Cardinality({ c \in DOMAIN BCs(m) : HasCircuit(m, c) })
Rows(m) == 0..(n_global_dofs(m) - 1)

\* region-type priority that orders the (region, FVM node) pairs of a node
TypeRank(type) ==
  CASE type = "SemiconductorRegion" -> 0
    [] type = "InsulatorRegion"     -> 1
    [] type = "ElectrodeRegion"     -> 2
    [] type = "MetalRegion"         -> 3
    [] OTHER                        -> 4

RECURSIVE SortedPairs(_, _)
\* the FVM nodes of S by (region-type priority, insertion order)
SortedPairs(m, S) ==
  IF S = {} THEN << >>
  ELSE LET f == CHOOSE f \in S : \A g \in S :
                   \/ TypeRank(TypeOf(m, f)) < TypeRank(TypeOf(m, g))
                   \/ TypeRank(TypeOf(m, f)) = TypeRank(TypeOf(m, g)) /\ f <= g
       IN << f >> \o SortedPairs(m, S \ {f})

\* region_node_begin(n) .. region_node_end(n)
build_region_nodes(m, n) ==
  SortedPairs(m, { f \in FvmIds(m) : FvmNodes(m)[f].root = n })

\* the region types the functions of a boundary have a case for: the
\* reference region of a homogeneous interface is a semiconductor and the
\* others are semiconductors or insulators; an ohmic contact lies on
\* semiconductor, electrode, insulator or vacuum regions
HasCouplingRule(m, b) ==
  \A k \in DOMAIN BCs(m)[b].nodes :
    LET fvm_nodes == build_region_nodes(m, BCs(m)[b].nodes[k])
    IN IF BCs(m)[b].type = "HomoInterface"
       THEN /\ TypeOf(m, fvm_nodes[1]) = "SemiconductorRegion"
            /\ \A i \in 2..Len(fvm_nodes) :
                  TypeOf(m, fvm_nodes[i]) \in {"SemiconductorRegion", "InsulatorRegion"}
       ELSE \A i \in DOMAIN fvm_nodes :
              TypeOf(m, fvm_nodes[i]) \in {"SemiconductorRegion", "ElectrodeRegion",
                                           "InsulatorRegion", "VacuumRegion"}

\* the boundary setup: a boundary without a coupling rule is a fatal error
\* and no solver is run
bc_setup(m) ==
  IF \A b \in DOMAIN BCs(m) : HasCouplingRule(m, b) THEN "created" ELSE "fatal"

\* ------------------------------------------------------------------------
\* State
\* ------------------------------------------------------------------------
VARIABLES
  mesh,           \* the mesh in use
  n_processors,   \* number of ranks
  processor_id,   \* root node -> owning rank
  layout,         \* offsets and local sets of the distributed mesh
  z_width,        \* device dimension in Z (1 for a 3D mesh)
  TimeDependent,  \* transient simulation
  inter_connect,  \* the electrode belongs to an inter-connect
  ext_circuit,    \* rank -> the rank's copy of the electrode's circuit
  node_data,      \* rank -> FVM node -> FVM_NodeData (each rank's own copy)
  x,              \* global unknown vector
  Ld,             \* scaling vector L, by denominators: L[i] = 1/Ld[i]
  lx,             \* rank -> local (ghost-extended) buffer
  r,              \* residual vector (assembled values)
  J,              \* Jacobian matrix (assembled values)
  stash,          \* rank -> residual values added, not yet assembled
  Jstash,         \* rank -> Jacobian values added, not yet assembled
  scaled,         \* rows of r and of J already multiplied by L, and the factor
                  \* by which each returned row differs from the assembled one
  surgery,        \* rank -> src_row, dst_row, clear_row of the evaluation
  current_buffer, \* rank -> _current_buffer of the electrode
  jac_buffer,     \* rank -> _buffer_cols / _buffer_jacobian_entries
  jacobian_matrix_first_assemble,
  pc,             \* rank -> phase the rank is about to run
  mode,           \* "none" | "residual" | "jacobian"
  hist,           \* rank -> phases run in the current evaluation
  solve,          \* "created" | "iterating" | "finished" | "diverged" | "fatal"
  iter,           \* Newton trial steps taken
  last_call,      \* the orchestrator entry point that ran last
  add_value_flag, \* rank -> InsertMode flag handed from function to function
  collectives,    \* rank -> collective operations entered in the current call
  enable_T,       \* advanced model: which temperature equations are solved
  snes_x,         \* line search: previous iterate, by (FVM node, variable)
  snes_y,         \* line search: search direction and length
  snes_w,         \* line search: candidate iterate
  changed_y,      \* line search: the post-check reports a changed direction
  changed_w,      \* line search: the post-check reports a changed candidate
  applied,        \* post-check and error-estimate calls made so far
  LTE,            \* result of the last LTE_norm call
  nz_pattern,     \* (row, col) positions of J allocated by a finished assembly
  nz_stash,       \* rank -> positions set since the last assembly
  ignore_zero_entries, \* rank -> MAT_IGNORE_ZERO_ENTRIES is set on J
  n_reserve,      \* rank -> runs of the boundary reserve loop so far
  n_solve,        \* solve steps begun after the first one
  bd_node,        \* a boundary node: its condition, regions and advanced model
  pre_rows,       \* the triples the two preprocess functions emitted for it
  numdir,         \* AutoDScalar::numdir, the active direction count
  ad_routine,     \* the Jacobian routine being run and its stencil
  ad_pc,          \* next statement of the routine
  ad_live,        \* the seeded AutoDScalar variables of the current stencil
  ad_eval,        \* the last differentiated evaluation
  ad_run          \* routines run so far

setup == << mesh, n_processors, processor_id, layout, z_width, TimeDependent,
           inter_connect >>
vars == << mesh, n_processors, processor_id, layout, z_width, TimeDependent,
           inter_connect,
           ext_circuit, node_data, x, Ld, lx, r, J, stash, Jstash, scaled,
           surgery, current_buffer, jac_buffer, jacobian_matrix_first_assemble,
           pc, mode, hist, solve, iter, last_call, add_value_flag, collectives,
           enable_T, snes_x, snes_y, snes_w, changed_y, changed_w, applied, LTE,
           nz_pattern, nz_stash, ignore_zero_entries, n_reserve, n_solve,
           bd_node, pre_rows, numdir, ad_routine, ad_pc, ad_live, ad_eval, ad_run >>
pattern_vars == << nz_pattern, nz_stash, ignore_zero_entries, n_reserve >>
preprocess_vars == << bd_node, pre_rows >>
ad_vars == << numdir, ad_routine, ad_pc, ad_live, ad_eval, ad_run >>
stencil_vars == << preprocess_vars, ad_vars >>
collective_vars == << add_value_flag, collectives >>
damping_vars == << enable_T, snes_x, snes_y, snes_w, changed_y, changed_w, applied, LTE >>
solver_vars ==
  << setup, ext_circuit, node_data, x, Ld, lx, r, J, stash, Jstash, scaled, surgery,
     current_buffer, jac_buffer, jacobian_matrix_first_assemble, pc, mode, hist,
     solve, iter, last_call, add_value_flag, pattern_vars, n_solve >>

Ranks == 0..(n_processors - 1)
is_last_processor(p) == p = n_processors - 1

on_processor(f, p) == processor_id[FvmNodes(mesh)[f].root] = p

\* cells that hold a node of the rank, their edges and their nodes (the
\* rank's own nodes plus its ghost nodes)
find_local_cells(p) ==
  { c \in DOMAIN Cells(mesh) : \E f \in CellNodes(mesh, c) : on_processor(f, p) }
find_local_edges(p) ==
  { i \in DOMAIN Edges(mesh) : \E c \in find_local_cells(p) :
        \E k \in DOMAIN Cells(mesh)[c] : Cells(mesh)[c][k].edge = i }
find_local_nodes(p) ==
  { f \in FvmIds(mesh) :
      \/ on_processor(f, p)
      \/ \E c \in find_local_cells(p) : f \in CellNodes(mesh, c) }

set_local_offset(p, f) == OffsetBefore(mesh, find_local_nodes(p), f)
set_n_local_node_dofs(p) ==
  OffsetBefore(mesh, find_local_nodes(p), Len(FvmNodes(mesh)) + 1)

\* row -> node and owning rank: a node row belongs to the node's rank, the
\* slot of a boundary condition to the last rank
find_row_node(row) ==
  CHOOSE f \in FvmIds(mesh) :
    /\ set_global_offset(mesh, f) <= row
    /\ row < set_global_offset(mesh, f) + n_variables(TypeOf(mesh, f))
find_row_owner(row) ==
  IF row < n_node_dofs(mesh)
  THEN processor_id[FvmNodes(mesh)[find_row_node(row)].root]
  ELSE n_processors - 1

\* the scatter of rank p: entry k of the local buffer -> global row
build_scatter(p) ==
  LET nodes == find_local_nodes(p)
      lo == [ f \in nodes |-> set_local_offset(p, f) ]
      go == [ f \in nodes |-> set_global_offset(mesh, f) ]
      n  == set_n_local_node_dofs(p)
  IN [ k \in 0..(n + (n_global_dofs(mesh) - n_node_dofs(mesh)) - 1) |->
         IF k < n
         THEN LET f == CHOOSE f \in nodes :
                         lo[f] <= k /\ k < lo[f] + n_variables(TypeOf(mesh, f))
              IN go[f] + (k - lo[f])
         ELSE n_node_dofs(mesh) + (k - n) ]

\* the offsets and local sets are assigned once, when the mesh is
\* distributed, and stored with the nodes: layout holds them
build_layout ==
  [ global_offset |-> [ f \in FvmIds(mesh) |-> set_global_offset(mesh, f) ],
    local_offset  |-> [ p \in Ranks |->
                        [ f \in find_local_nodes(p) |-> set_local_offset(p, f) ] ],
    n_local_node_dofs |-> [ p \in Ranks |-> set_n_local_node_dofs(p) ],
    bc_global_offset  |-> [ b \in DOMAIN BCs(mesh) |-> set_bc_global_offset(mesh, b) ],
    local_cells   |-> [ p \in Ranks |-> find_local_cells(p) ],
    local_edges   |-> [ p \in Ranks |-> find_local_edges(p) ],
    region_nodes  |-> [ n \in Roots(mesh) |-> build_region_nodes(mesh, n) ],
    row_node      |-> [ row \in 0..(n_node_dofs(mesh) - 1) |-> find_row_node(row) ],
    row_owner     |-> [ row \in Rows(mesh) |-> find_row_owner(row) ],
    scatter       |-> [ p \in Ranks |-> build_scatter(p) ] ]

global_offset(f)    == layout.global_offset[f]
local_offset(p, f)  == layout.local_offset[p][f]
bc_global_offset(b) == layout.bc_global_offset[b]
region_nodes(n)     == layout.region_nodes[n]
LocalCells(p)       == layout.local_cells[p]
LocalEdges(p)       == layout.local_edges[p]
LocalNodes(p)       == DOMAIN layout.local_offset[p]
on_local(f, p)      == f \in LocalNodes(p)
n_local_node_dofs(p) == layout.n_local_node_dofs[p]
bc_local_offset(p, b) ==
  n_local_node_dofs(p) + Cardinality({ c \in 1..(b-1) : HasCircuit(mesh, c) })

\* ------------------------------------------------------------------------
\* Vectors: a vector is a function over its rows; a buffer of (row, value)
\* pairs is added with ADD_VALUES
\* ------------------------------------------------------------------------
ZeroVec(S) == [ i \in S |-> 0 ]

\* VecSetValues(v, iy, y, ADD_VALUES)
VecSetValuesAdd(v, iy) ==
  [ row \in DOMAIN v |->
      v[row] + SumOver([ i \in DOMAIN iy |-> iy[i][2] ],
                       { i \in DOMAIN iy : iy[i][1] = row }) ]

RECURSIVE ForEach(_, _)
\* the buffers body[i] of a loop over the indices S, in ascending order
ForEach(body, S) ==
  IF S = {} THEN << >>
  ELSE LET i == CHOOSE i \in S : \A j \in S : i <= j
       IN body[i] \o ForEach(body, S \ {i})

IsNodeRow(row) == row < n_node_dofs(mesh)
RowNode(row)   == layout.row_node[row]
RowOwner(row)  == layout.row_owner[row]
OwnedRows(p)   == { row \in Rows(mesh) : RowOwner(row) = p }

\* ------------------------------------------------------------------------
\* Scatter: global vector -> rank-local ghost-extended buffer
\* ------------------------------------------------------------------------
n_local_dofs(p) ==
  n_local_node_dofs(p) + Cardinality({ b \in DOMAIN BCs(mesh) : HasCircuit(mesh, b) })

LocalToGlobal(p, k) == layout.scatter[p][k]

VecScatter(p, v) == [ k \in 0..(n_local_dofs(p) - 1) |-> v[LocalToGlobal(p, k)] ]

\* ------------------------------------------------------------------------
\* Material and geometry data of the FVM nodes (inputs of the assembly)
\* ------------------------------------------------------------------------
Conductance == 1
kbT_e == 1
dt == 2
NodeEps(f)     == 2 * RegionOf(mesh, f)
NodeMun(f)     == 2 * RegionOf(mesh, f)
NodeMup(f)     == 4 * RegionOf(mesh, f)
Net_doping(f)  == IF FvmNodes(mesh)[f].root % 2 = 1 THEN 3 ELSE -3
NodeVolume(f)  == 2 + 2 * (f % 2)

\* the pseudo-time term of Poisson's equation carries the factor 1e-3:
\* the semiconductor Poisson rows are kept in units of 1/pesudo_den
pesudo_den == 1000

\* edge current stencils and recombination rate of the material library
In_dd(Vt, dE, n1, n2, length) ==
  (2 \div length) * (n2 * (2 * Vt + dE) - n1 * (2 * Vt - dE))
Ip_dd(Vt, dE, p1, p2, length) ==
  (2 \div length) * (p1 * (2 * Vt + dE) - p2 * (2 * Vt - dE))
nie == 2
Recomb(p, n) == p * n - nie * nie

RegionEdges(p, rg) ==
  { i \in LocalEdges(p) : RegionOf(mesh, Edges(mesh)[i].first) = rg }
RegionCells(p, rg) ==
  { c \in LocalCells(p) : \A f \in CellNodes(mesh, c) : RegionOf(mesh, f) = rg }
on_processor_nodes(p, rg) ==
  { f \in FvmIds(mesh) : RegionOf(mesh, f) = rg /\ on_processor(f, p) }
on_local_nodes(p, rg) ==
  { f \in FvmIds(mesh) : RegionOf(mesh, f) = rg /\ on_local(f, p) }

\* ------------------------------------------------------------------------
\* Region Assembler: residual
\* ------------------------------------------------------------------------
\* variant: a rank also adds the flux to the row of a ghost end of an edge
Metal_DDM1_Function_ghost_rows(p, rg, xl) ==
  ForEach([ i \in RegionEdges(p, rg) |->
    LET fvm_n1 == Edges(mesh)[i].first
        fvm_n2 == Edges(mesh)[i].second
        V1 == xl[local_offset(p, fvm_n1)]
        V2 == xl[local_offset(p, fvm_n2)]
        f  == (Conductance * Edges(mesh)[i].area * (V2 - V1)) \div Edges(mesh)[i].dist
    IN << << global_offset(fvm_n1), f >>, << global_offset(fvm_n2), -f >> >> ],
    RegionEdges(p, rg))

\* MetalSimulationRegion::DDM1_Function: the (row, value) buffer of rank p
Metal_DDM1_Function(p, rg, xl) ==
  ForEach([ i \in RegionEdges(p, rg) |->
    LET fvm_n1 == Edges(mesh)[i].first
        fvm_n2 == Edges(mesh)[i].second
        V1 == xl[local_offset(p, fvm_n1)]
        V2 == xl[local_offset(p, fvm_n2)]
        f  == (Conductance * Edges(mesh)[i].area * (V2 - V1)) \div Edges(mesh)[i].dist
    IN (IF on_processor(fvm_n1, p)
          THEN << << global_offset(fvm_n1), f >> >> ELSE << >>)
       \o
       (IF on_processor(fvm_n2, p)
          THEN << << global_offset(fvm_n2), -f >> >> ELSE << >>) ],
    RegionEdges(p, rg))

\* S-G currents along the edges, precomputed once per edge
Jn_edge_buffer(p, xl) ==
  [ i \in LocalEdges(p) |->
    LET fvm_n1 == Edges(mesh)[i].first
        fvm_n2 == Edges(mesh)[i].second
        V1 == xl[local_offset(p, fvm_n1) + 0]
        n1 == xl[local_offset(p, fvm_n1) + 1]
        V2 == xl[local_offset(p, fvm_n2) + 0]
        n2 == xl[local_offset(p, fvm_n2) + 1]
    IN In_dd(kbT_e, -(V2 - V1), n1, n2, Edges(mesh)[i].dist) ]
Jp_edge_buffer(p, xl) ==
  [ i \in LocalEdges(p) |->
    LET fvm_n1 == Edges(mesh)[i].first
        fvm_n2 == Edges(mesh)[i].second
        V1 == xl[local_offset(p, fvm_n1) + 0]
        p1 == xl[local_offset(p, fvm_n1) + 2]
        V2 == xl[local_offset(p, fvm_n2) + 0]
        p2 == xl[local_offset(p, fvm_n2) + 2]
    IN Ip_dd(kbT_e, -(V2 - V1), p1, p2, Edges(mesh)[i].dist) ]

\* edge loop: Poisson flux between the two ends of every edge
Semiconductor_PoissonFlux(p, rg, xl) ==
  ForEach([ i \in RegionEdges(p, rg) |->
    LET fvm_n1 == Edges(mesh)[i].first
        fvm_n2 == Edges(mesh)[i].second
        V1 == xl[local_offset(p, fvm_n1) + 0]
        V2 == xl[local_offset(p, fvm_n2) + 0]
        eps == (NodeEps(fvm_n1) + NodeEps(fvm_n2)) \div 2
        f  == pesudo_den *
                ((eps * Edges(mesh)[i].area * (V2 - V1)) \div Edges(mesh)[i].dist)
    IN (IF on_processor(fvm_n1, p)
          THEN << << global_offset(fvm_n1), f >> >> ELSE << >>)
       \o
       (IF on_processor(fvm_n2, p)
          THEN << << global_offset(fvm_n2), -f >> >> ELSE << >>) ],
    RegionEdges(p, rg))

\* variant: the continuity rows of a ghost end of a cell edge are written too
CellEdgeFlux_ghost_rows(p, c, k, xl) ==
  LET ed == Cells(mesh)[c][k]
      fvm_n1 == ed.n1
      fvm_n2 == ed.n2
      inverse == FvmNodes(mesh)[fvm_n1].root > FvmNodes(mesh)[fvm_n2].root
      mun == (NodeMun(fvm_n1) + NodeMun(fvm_n2)) \div 2
      mup == (NodeMup(fvm_n1) + NodeMup(fvm_n2)) \div 2
      Jn == mun * (IF inverse THEN -Jn_edge_buffer(p, xl)[ed.edge]
                              ELSE Jn_edge_buffer(p, xl)[ed.edge])
      Jp == mup * (IF inverse THEN -Jp_edge_buffer(p, xl)[ed.edge]
                              ELSE Jp_edge_buffer(p, xl)[ed.edge])
  IN << << global_offset(fvm_n1) + 1, Jn * ed.tpa >>,
        << global_offset(fvm_n1) + 2, -Jp * ed.tpa >>,
        << global_offset(fvm_n2) + 1, -Jn * ed.tpa >>,
        << global_offset(fvm_n2) + 2, Jp * ed.tpa >> >>

\* the contribution of edge k of cell c to the continuity rows
CellEdgeFlux(p, c, k, xl) ==
  LET ed == Cells(mesh)[c][k]
      fvm_n1 == ed.n1
      fvm_n2 == ed.n2
      inverse == FvmNodes(mesh)[fvm_n1].root > FvmNodes(mesh)[fvm_n2].root
      mun == (NodeMun(fvm_n1) + NodeMun(fvm_n2)) \div 2
      mup == (NodeMup(fvm_n1) + NodeMup(fvm_n2)) \div 2
      Jn == mun * (IF inverse THEN -Jn_edge_buffer(p, xl)[ed.edge]
                              ELSE Jn_edge_buffer(p, xl)[ed.edge])
      Jp == mup * (IF inverse THEN -Jp_edge_buffer(p, xl)[ed.edge]
                              ELSE Jp_edge_buffer(p, xl)[ed.edge])
  IN (IF on_processor(fvm_n1, p)
        THEN << << global_offset(fvm_n1) + 1, Jn * ed.tpa >>,
                << global_offset(fvm_n1) + 2, -Jp * ed.tpa >> >>
        ELSE << >>)
     \o
     (IF on_processor(fvm_n2, p)
        THEN << << global_offset(fvm_n2) + 1, -Jn * ed.tpa >>,
                << global_offset(fvm_n2) + 2, Jp * ed.tpa >> >>
        ELSE << >>)

\* element loop: S-G currents along the edges of every local cell
Semiconductor_CellFlux(p, rg, xl) ==
  ForEach([ c \in RegionCells(p, rg) |->
              ForEach([ k \in DOMAIN Cells(mesh)[c] |-> CellEdgeFlux(p, c, k, xl) ],
                      DOMAIN Cells(mesh)[c]) ],
          RegionCells(p, rg))

\* node loop: charge density, pseudo-time term and recombination
Semiconductor_NodeTerms(p, rg, xl) ==
  ForEach([ f \in on_processor_nodes(p, rg) |->
    LET V == xl[local_offset(p, f) + 0]
        n == xl[local_offset(p, f) + 1]
        h == xl[local_offset(p, f) + 2]
        R   == -Recomb(h, n) * NodeVolume(f)
        rho == (Net_doping(f) + h - n) * NodeVolume(f)
        pesudo_Vs == -(V - node_data[p][f].psi) * NodeVolume(f)
    IN << << global_offset(f) + 0, pesudo_den * rho + pesudo_Vs >>,
          << global_offset(f) + 1, R >>,
          << global_offset(f) + 2, R >> >> ],
    on_processor_nodes(p, rg))

\* SemiconductorSimulationRegion::DDM1_Function
Semiconductor_DDM1_Function(p, rg, xl) ==
  Semiconductor_PoissonFlux(p, rg, xl) \o Semiconductor_CellFlux(p, rg, xl)
    \o Semiconductor_NodeTerms(p, rg, xl)

\* the region loop of the residual evaluation on rank p
Region_Function(p, xl) ==
  ForEach([ rg \in DOMAIN RegionTypes(mesh) |->
              IF RegionTypes(mesh)[rg] = "MetalRegion"
              THEN Metal_DDM1_Function(p, rg, xl)
              ELSE Semiconductor_DDM1_Function(p, rg, xl) ],
          DOMAIN RegionTypes(mesh))

\* ------------------------------------------------------------------------
\* Boundary/Interface Stitcher: homogeneous interface
\* ------------------------------------------------------------------------
bc_nodes(b) == BCs(mesh)[b].nodes

\* variant: the rows of region i are merged into the rows of region i-1
HomoInterface_Pairs_chained(p, b) ==
  ForEach([ k \in DOMAIN bc_nodes(b) |->
    IF processor_id[bc_nodes(b)[k]] # p THEN << >>
    ELSE LET fvm_nodes == region_nodes(bc_nodes(b)[k])
         IN ForEach([ i \in 2..Len(fvm_nodes) |->
              [ v \in 1..n_variables(TypeOf(mesh, fvm_nodes[i])) |->
                  [ src |-> global_offset(fvm_nodes[i]) + (v - 1),
                    dst |-> global_offset(fvm_nodes[i - 1]) + (v - 1) ] ] ],
              2..Len(fvm_nodes)) ],
    DOMAIN bc_nodes(b))

\* variant: the reference rows are merged into the rows of the other regions
HomoInterface_Pairs_swapped(p, b) ==
  ForEach([ k \in DOMAIN bc_nodes(b) |->
    IF processor_id[bc_nodes(b)[k]] # p THEN << >>
    ELSE LET fvm_nodes == region_nodes(bc_nodes(b)[k])
         IN ForEach([ i \in 2..Len(fvm_nodes) |->
              [ v \in 1..n_variables(TypeOf(mesh, fvm_nodes[i])) |->
                  [ src |-> global_offset(fvm_nodes[1]) + (v - 1),
                    dst |-> global_offset(fvm_nodes[i]) + (v - 1) ] ] ],
              2..Len(fvm_nodes)) ],
    DOMAIN bc_nodes(b))

\* the (src, dst) row pairs of boundary b emitted on rank p
HomoInterface_Pairs(p, b) ==
  ForEach([ k \in DOMAIN bc_nodes(b) |->
    IF processor_id[bc_nodes(b)[k]] # p THEN << >>
    ELSE LET fvm_nodes == region_nodes(bc_nodes(b)[k])
         IN ForEach([ i \in 2..Len(fvm_nodes) |->
              IF TypeOf(mesh, fvm_nodes[i]) = "SemiconductorRegion"
              THEN [ v \in 1..3 |->
                       [ src |-> global_offset(fvm_nodes[i]) + (v - 1),
                         dst |-> global_offset(fvm_nodes[1]) + (v - 1) ] ]
              ELSE << [ src |-> global_offset(fvm_nodes[i]) + 0,
                        dst |-> global_offset(fvm_nodes[1]) + 0 ] >> ],
              2..Len(fvm_nodes)) ],
    DOMAIN bc_nodes(b))

\* variant: the source rows are merged but not listed for clearing
HomoInterface_Function_Preprocess_no_clear(p, b) ==
  LET t == HomoInterface_Pairs(p, b)
  IN [ src_row   |-> [ k \in DOMAIN t |-> t[k].src ],
       dst_row   |-> [ k \in DOMAIN t |-> t[k].dst ],
       clear_row |-> << >>,
       current   |-> << >> ]

\* HomoInterfaceBC::DDM1_Function_Preprocess
HomoInterface_Function_Preprocess(p, b) ==
  LET t == HomoInterface_Pairs(p, b)
  IN [ src_row   |-> [ k \in DOMAIN t |-> t[k].src ],
       dst_row   |-> [ k \in DOMAIN t |-> t[k].dst ],
       clear_row |-> [ k \in DOMAIN t |-> t[k].src ],
       current   |-> << >> ]

\* variant: the Jacobian pass takes the other region as the reference
HomoInterface_Jacobian_Preprocess_swapped(p, b) ==
  LET t == HomoInterface_Pairs_swapped(p, b)
  IN [ src_row   |-> [ k \in DOMAIN t |-> t[k].src ],
       dst_row   |-> [ k \in DOMAIN t |-> t[k].dst ],
       clear_row |-> [ k \in DOMAIN t |-> t[k].src ],
       buffer    |-> << >> ]

\* HomoInterfaceBC::DDM1_Jacobian_Preprocess
HomoInterface_Jacobian_Preprocess(p, b) ==
  LET t == HomoInterface_Pairs(p, b)
  IN [ src_row   |-> [ k \in DOMAIN t |-> t[k].src ],
       dst_row   |-> [ k \in DOMAIN t |-> t[k].dst ],
       clear_row |-> [ k \in DOMAIN t |-> t[k].src ],
       buffer    |-> << >> ]

\* variant: the equality equations are written as sums of the two unknowns
HomoInterface_Function_sum(p, b, xl) ==
  ForEach([ k \in DOMAIN bc_nodes(b) |->
    IF processor_id[bc_nodes(b)[k]] # p THEN << >>
    ELSE LET fvm_nodes == region_nodes(bc_nodes(b)[k])
         IN ForEach([ i \in 2..Len(fvm_nodes) |->
              [ v \in 1..n_variables(TypeOf(mesh, fvm_nodes[i])) |->
                  << global_offset(fvm_nodes[i]) + (v - 1),
                     xl[local_offset(p, fvm_nodes[i]) + (v - 1)]
                       + xl[local_offset(p, fvm_nodes[1]) + (v - 1)] >> ] ],
              2..Len(fvm_nodes)) ],
    DOMAIN bc_nodes(b))

\* HomoInterfaceBC::DDM1_Function: the (row, value) buffer of rank p
HomoInterface_Function(p, b, xl) ==
  ForEach([ k \in DOMAIN bc_nodes(b) |->
    IF processor_id[bc_nodes(b)[k]] # p THEN << >>
    ELSE LET fvm_nodes == region_nodes(bc_nodes(b)[k])
         IN ForEach([ i \in 2..Len(fvm_nodes) |->
              LET V == xl[local_offset(p, fvm_nodes[i]) + 0]
                  V_semi == xl[local_offset(p, fvm_nodes[1]) + 0]
              IN IF TypeOf(mesh, fvm_nodes[i]) = "SemiconductorRegion"
                 THEN LET n == xl[local_offset(p, fvm_nodes[i]) + 1]
                          h == xl[local_offset(p, fvm_nodes[i]) + 2]
                          n_semi == xl[local_offset(p, fvm_nodes[1]) + 1]
                          p_semi == xl[local_offset(p, fvm_nodes[1]) + 2]
                      IN << << global_offset(fvm_nodes[i]) + 0, V - V_semi >>,
                            << global_offset(fvm_nodes[i]) + 1, n - n_semi >>,
                            << global_offset(fvm_nodes[i]) + 2, h - p_semi >> >>
                 ELSE << << global_offset(fvm_nodes[i]) + 0, V - V_semi >> >> ],
              2..Len(fvm_nodes)) ],
    DOMAIN bc_nodes(b))

\* ------------------------------------------------------------------------
\* Boundary/Interface Stitcher: Ohmic contact with its external circuit
\* ------------------------------------------------------------------------
ISqrt(k) == CHOOSE q \in 0..k : q * q = k

\* equilibrium carrier densities and built-in potential of a contact node
electron_density(f) ==
  IF Net_doping(f) < 0
  THEN (nie * nie) \div
         ((-Net_doping(f) + ISqrt(Net_doping(f) * Net_doping(f) + 4 * nie * nie)) \div 2)
  ELSE (Net_doping(f) + ISqrt(Net_doping(f) * Net_doping(f) + 4 * nie * nie)) \div 2
hole_density(f) ==
  IF Net_doping(f) < 0
  THEN (-Net_doping(f) + ISqrt(Net_doping(f) * Net_doping(f) + 4 * nie * nie)) \div 2
  ELSE (nie * nie) \div
         ((Net_doping(f) + ISqrt(Net_doping(f) * Net_doping(f) + 4 * nie * nie)) \div 2)
\* kb*T/e*asinh(Net_doping/(2*nie)) - Eg/(2e) - kb*T*log(Nc/Nv)/(2e) - affinity
builtin_potential(f) == kbT_e * Net_doping(f)

\* variant: the conduction terms are appended to the buffer of the previous
\* evaluation
Ohmic_Function_Preprocess_keep(p, b, v) ==
  LET owned == ForEach([ k \in DOMAIN bc_nodes(b) |->
                 IF processor_id[bc_nodes(b)[k]] # p THEN << >>
                 ELSE region_nodes(bc_nodes(b)[k]) ], DOMAIN bc_nodes(b))
  IN [ src_row   |-> << >>,
       dst_row   |-> << >>,
       clear_row |-> ForEach([ k \in DOMAIN owned |->
                       IF TypeOf(mesh, owned[k]) = "SemiconductorRegion"
                       THEN << global_offset(owned[k]) + 0,
                               global_offset(owned[k]) + 1,
                               global_offset(owned[k]) + 2 >>
                       ELSE << global_offset(owned[k]) + 0 >> ],
                     DOMAIN owned),
       current   |-> current_buffer[p][b]
                     \o ForEach([ k \in DOMAIN owned |->
                       IF TypeOf(mesh, owned[k]) = "SemiconductorRegion"
                       THEN << v[global_offset(owned[k]) + 1]
                                 - v[global_offset(owned[k]) + 2] >>
                       ELSE << >> ],
                     DOMAIN owned) ]

\* OhmicContactBC::EBM3_Function_Preprocess on rank p, reading vector v
Ohmic_Function_Preprocess(p, b, v) ==
  LET owned == ForEach([ k \in DOMAIN bc_nodes(b) |->
                 IF processor_id[bc_nodes(b)[k]] # p THEN << >>
                 ELSE region_nodes(bc_nodes(b)[k]) ], DOMAIN bc_nodes(b))
  IN [ src_row   |-> << >>,
       dst_row   |-> << >>,
       clear_row |-> ForEach([ k \in DOMAIN owned |->
                       IF TypeOf(mesh, owned[k]) = "SemiconductorRegion"
                       THEN << global_offset(owned[k]) + 0,
                               global_offset(owned[k]) + 1,
                               global_offset(owned[k]) + 2 >>
                       ELSE << global_offset(owned[k]) + 0 >> ],
                     DOMAIN owned),
       current   |-> ForEach([ k \in DOMAIN owned |->
                       IF TypeOf(mesh, owned[k]) = "SemiconductorRegion"
                       THEN << v[global_offset(owned[k]) + 1]
                                 - v[global_offset(owned[k]) + 2] >>
                       ELSE << >> ],
                     DOMAIN owned) ]

\* the boundary equations of the contact nodes owned by rank p
Ohmic_NodeEquations(p, b, xl) ==
  LET Ve == xl[bc_local_offset(p, b)]
  IN ForEach([ k \in DOMAIN bc_nodes(b) |->
       IF processor_id[bc_nodes(b)[k]] # p THEN << >>
       ELSE LET fvm_nodes == region_nodes(bc_nodes(b)[k])
            IN ForEach([ i \in DOMAIN fvm_nodes |->
                 LET V == xl[local_offset(p, fvm_nodes[i]) + 0]
                 IN IF TypeOf(mesh, fvm_nodes[i]) = "SemiconductorRegion"
                    THEN LET n == xl[local_offset(p, fvm_nodes[i]) + 1]
                             h == xl[local_offset(p, fvm_nodes[i]) + 2]
                         IN << << global_offset(fvm_nodes[i]) + 0,
                                  V - builtin_potential(fvm_nodes[i]) - Ve >>,
                               << global_offset(fvm_nodes[i]) + 1,
                                  n - electron_density(fvm_nodes[i]) >>,
                               << global_offset(fvm_nodes[i]) + 2,
                                  h - hole_density(fvm_nodes[i]) >> >>
                    ELSE << << global_offset(fvm_nodes[i]) + 0,
                               V - xl[local_offset(p, fvm_nodes[1]) + 0] >> >> ],
                 DOMAIN fvm_nodes) ],
       DOMAIN bc_nodes(b))

\* displacement current through the control-volume faces of the contact
\* nodes owned by rank p (first-order time derivative)
Ohmic_DisplacementCurrent(p, b, xl) ==
  IF ~TimeDependent THEN << >>
  ELSE ForEach([ k \in DOMAIN bc_nodes(b) |->
         IF processor_id[bc_nodes(b)[k]] # p THEN << >>
         ELSE LET f == region_nodes(bc_nodes(b)[k])[1]
                  V == xl[local_offset(p, f) + 0]
              IN ForEach([ nb \in Neighbors(mesh, f) |->
                   LET V_nb == xl[local_offset(p, nb) + 0]
                       ed == Edges(mesh)[EdgeBetween(mesh, f, nb)]
                   IN << (ed.area * NodeEps(f) *
                            ((V - V_nb) - (node_data[p][f].psi - node_data[p][nb].psi)))
                           \div (ed.dist * dt) >> ],
                   Neighbors(mesh, f)) ],
         DOMAIN bc_nodes(b))

\* the potential at the inter-connect hub: x[inter_connect_hub()->local_offset()],
\* an unknown kept by the hub boundary
V_inter_connect == 45

\* variant: the electrode current without the device dimension in Z
Ohmic_current_unscaled(p, b, xl, buffer) ==
  SumSeq(buffer \o Ohmic_DisplacementCurrent(p, b, xl))

\* the electrode current seen by rank p
Ohmic_current(p, b, xl, buffer) ==
  z_width * SumSeq(buffer \o Ohmic_DisplacementCurrent(p, b, xl))

\* variant: every rank, not only the last, adds the voltage part
Ohmic_CircuitEquation_every_rank(p, b, xl, buffer) ==
  LET c  == ext_circuit[p]
      Ve == xl[bc_local_offset(p, b)]
      current == Ohmic_current(p, b, xl, buffer)
      L_dt == c.L \div dt
  IN (IF inter_connect
        THEN << << bc_global_offset(b), c.R * current >> >>
        ELSE IF c.driven = "voltage"
        THEN << << bc_global_offset(b), (L_dt + c.R) * current >> >>
        ELSE << << bc_global_offset(b), current >> >>)
     \o
     (IF inter_connect
        THEN << << bc_global_offset(b), Ve - V_inter_connect >> >>
      ELSE IF c.driven = "voltage"
        THEN << << bc_global_offset(b),
                   (Ve - c.Vapp) + (((L_dt + c.R) * c.C) \div dt) * Ve
                     - (((L_dt + c.R) * c.C) \div dt) * c.potential
                     - L_dt * (c.current + c.cap_current) >> >>
        ELSE << << bc_global_offset(b), c.cap_current - c.Iapp >> >>)

\* the circuit equation written by rank p at the electrode row
Ohmic_CircuitEquation(p, b, xl, buffer) ==
  LET c  == ext_circuit[p]
      Ve == xl[bc_local_offset(p, b)]
      current == Ohmic_current(p, b, xl, buffer)
      L_dt == c.L \div dt
  IN (IF inter_connect
        THEN << << bc_global_offset(b), c.R * current >> >>
        ELSE IF c.driven = "voltage"
        THEN << << bc_global_offset(b), (L_dt + c.R) * current >> >>
        ELSE << << bc_global_offset(b), current >> >>)
     \o
     (IF ~is_last_processor(p) THEN << >>
      ELSE IF inter_connect
        THEN << << bc_global_offset(b), Ve - V_inter_connect >> >>
      ELSE IF c.driven = "voltage"
        THEN << << bc_global_offset(b),
                   (Ve - c.Vapp) + (((L_dt + c.R) * c.C) \div dt) * Ve
                     - (((L_dt + c.R) * c.C) \div dt) * c.potential
                     - L_dt * (c.current + c.cap_current) >> >>
        ELSE << << bc_global_offset(b), c.cap_current - c.Iapp >> >>)

\* OhmicContactBC::EBM3_Function: the (row, value) buffer of rank p
Ohmic_Function(p, b, xl, buffer) ==
  Ohmic_NodeEquations(p, b, xl) \o Ohmic_CircuitEquation(p, b, xl, buffer)

\* ------------------------------------------------------------------------
\* Row-Surgery Utility on a vector
\* ------------------------------------------------------------------------
RECURSIVE VecAddRows(_, _, _)
VecAddRows(v, src_row, dst_row) ==
  IF src_row = << >> THEN v
  ELSE VecAddRows([ v EXCEPT ![Head(dst_row)] = @ + v[Head(src_row)] ],
                  Tail(src_row), Tail(dst_row))

\* PetscUtils::VecAddClearRow
VecAddClearRow(v, src_row, dst_row, clear_row) ==
  LET added == VecAddRows(v, src_row, dst_row)
  IN [ row \in DOMAIN v |-> IF row \in Range(clear_row) THEN 0 ELSE added[row] ]

\* ------------------------------------------------------------------------
\* Fill_Value: FVM_NodeData -> unknown vector x and scaling vector L
\* ------------------------------------------------------------------------
\* the value and the scaling denominator that the owner of a node row fills
Region_Fill_x(row) ==
  LET f == RowNode(row)
      d == node_data[RowOwner(row)][f]
      v == row - global_offset(f)
  IN IF TypeOf(mesh, f) = "MetalRegion" THEN d.psi
     ELSE IF v = 0 THEN d.psi ELSE IF v = 1 THEN d.n ELSE d.p
Region_Fill_L(row) ==
  LET f == RowNode(row)
      v == row - global_offset(f)
  IN IF TypeOf(mesh, f) = "MetalRegion" THEN Conductance * NodeVolume(f)
     ELSE IF v = 0 THEN NodeEps(f) * NodeVolume(f) ELSE NodeVolume(f)

\* OhmicContactBC::EBM3_Fill_Value, run by the last rank
Ohmic_Fill_x == ext_circuit[n_processors - 1].potential
Ohmic_Fill_L ==
  IF ext_circuit[n_processors - 1].driven = "voltage"
  THEN (1 + ext_circuit[n_processors - 1].R) * z_width
  ELSE z_width

Fill_x == [ row \in Rows(mesh) |->
            IF IsNodeRow(row) THEN Region_Fill_x(row) ELSE Ohmic_Fill_x ]
Fill_L == [ row \in Rows(mesh) |->
            IF IsNodeRow(row) THEN Region_Fill_L(row) ELSE Ohmic_Fill_L ]

\* ------------------------------------------------------------------------
\* Update_Solution: local buffer -> FVM_NodeData of the rank
\* ------------------------------------------------------------------------
\* variant: only the nodes that rank p owns are updated
Region_Update_Solution_owned(p, lxx) ==
  [ f \in DOMAIN node_data[p] |->
      IF ~on_processor(f, p) THEN node_data[p][f]
      ELSE IF TypeOf(mesh, f) = "MetalRegion"
      THEN [ node_data[p][f] EXCEPT !.psi_last = node_data[p][f].psi,
                                    !.psi = lxx[local_offset(p, f)] ]
      ELSE [ psi_last |-> node_data[p][f].psi,
             psi      |-> lxx[local_offset(p, f) + 0],
             n_last   |-> node_data[p][f].n,
             n        |-> lxx[local_offset(p, f) + 1],
             p_last   |-> node_data[p][f].p,
             p        |-> lxx[local_offset(p, f) + 2] ] ]

\* DDM1_Update_Solution of the regions on rank p: every local node
Region_Update_Solution(p, lxx) ==
  [ f \in DOMAIN node_data[p] |->
      IF ~on_local(f, p) THEN node_data[p][f]
      ELSE IF TypeOf(mesh, f) = "MetalRegion"
      THEN [ node_data[p][f] EXCEPT !.psi_last = node_data[p][f].psi,
                                    !.psi = lxx[local_offset(p, f)] ]
      ELSE [ psi_last |-> node_data[p][f].psi,
             psi      |-> lxx[local_offset(p, f) + 0],
             n_last   |-> node_data[p][f].n,
             n        |-> lxx[local_offset(p, f) + 1],
             p_last   |-> node_data[p][f].p,
             p        |-> lxx[local_offset(p, f) + 2] ] ]

\* ExternalCircuit::update with the currents of all ranks summed
Circuit_update(c, current_sum) ==
  [ c EXCEPT !.cap_current = (c.C * (c.potential_itering - c.potential)) \div dt,
             !.potential = c.potential_itering,
             !.current = current_sum,
             !.current_itering = current_sum ]

\* ------------------------------------------------------------------------
\* Region Assembler: Jacobian.  A matrix is a function over (row, col); a
\* buffer of (row, col, value) entries is added with ADD_VALUES.  The
\* entries are the AD values of the residual terms.
\* ------------------------------------------------------------------------
ZeroMat(S) == [ rc \in S \X S |-> 0 ]

\* MatSetValues(m, rows, cols, values, ADD_VALUES)
MatSetValuesAdd(m, buf) ==
  LET rows == { buf[i][1] : i \in DOMAIN buf }
  IN [ rc \in DOMAIN m |->
         IF rc[1] \notin rows THEN m[rc]
         ELSE m[rc] + SumOver([ i \in DOMAIN buf |-> buf[i][3] ],
                              { i \in DOMAIN buf : buf[i][1] = rc[1] /\ buf[i][2] = rc[2] }) ]

\* the entries k * d[i] of one matrix row, d a sequence of (col, value)
RowEntries(row, k, d) == [ i \in DOMAIN d |-> << row, d[i][1], k * d[i][2] >> ]

\* derivatives of the edge current stencils by dE, n1 (p1), n2 (p2)
In_dd_AD(Vt, dE, n1, n2, length) ==
  [ dE |-> (2 \div length) * (n2 + n1),
    c1 |-> -(2 \div length) * (2 * Vt - dE),
    c2 |-> (2 \div length) * (2 * Vt + dE) ]
Ip_dd_AD(Vt, dE, p1, p2, length) ==
  [ dE |-> (2 \div length) * (p1 + p2),
    c1 |-> (2 \div length) * (2 * Vt + dE),
    c2 |-> -(2 \div length) * (2 * Vt - dE) ]

\* MetalSimulationRegion::DDM1_Jacobian
Metal_DDM1_Jacobian(p, rg, xl) ==
  ForEach([ i \in RegionEdges(p, rg) |->
    LET fvm_n1 == Edges(mesh)[i].first
        fvm_n2 == Edges(mesh)[i].second
        g  == (Conductance * Edges(mesh)[i].area) \div Edges(mesh)[i].dist
        df == << << global_offset(fvm_n1), -g >>,
                 << global_offset(fvm_n2), g >> >>
    IN (IF on_processor(fvm_n1, p)
          THEN RowEntries(global_offset(fvm_n1), 1, df) ELSE << >>)
       \o
       (IF on_processor(fvm_n2, p)
          THEN RowEntries(global_offset(fvm_n2), -1, df) ELSE << >>) ],
    RegionEdges(p, rg))

Semiconductor_PoissonJacobian(p, rg, xl) ==
  ForEach([ i \in RegionEdges(p, rg) |->
    LET fvm_n1 == Edges(mesh)[i].first
        fvm_n2 == Edges(mesh)[i].second
        eps == (NodeEps(fvm_n1) + NodeEps(fvm_n2)) \div 2
        g  == pesudo_den * ((eps * Edges(mesh)[i].area) \div Edges(mesh)[i].dist)
        df == << << global_offset(fvm_n1), -g >>,
                 << global_offset(fvm_n2), g >> >>
    IN (IF on_processor(fvm_n1, p)
          THEN RowEntries(global_offset(fvm_n1), 1, df) ELSE << >>)
       \o
       (IF on_processor(fvm_n2, p)
          THEN RowEntries(global_offset(fvm_n2), -1, df) ELSE << >>) ],
    RegionEdges(p, rg))

\* AD values of the S-G currents of edge i by the unknowns of its two ends
Jn_edge_AD(p, xl, i) ==
  LET a == Edges(mesh)[i].first
      b == Edges(mesh)[i].second
      d == In_dd_AD(kbT_e, -(xl[local_offset(p, b)] - xl[local_offset(p, a)]),
                    xl[local_offset(p, a) + 1], xl[local_offset(p, b) + 1],
                    Edges(mesh)[i].dist)
  IN << << global_offset(a) + 0, d.dE >>,
        << global_offset(a) + 1, d.c1 >>,
        << global_offset(b) + 0, -d.dE >>,
        << global_offset(b) + 1, d.c2 >> >>
Jp_edge_AD(p, xl, i) ==
  LET a == Edges(mesh)[i].first
      b == Edges(mesh)[i].second
      d == Ip_dd_AD(kbT_e, -(xl[local_offset(p, b)] - xl[local_offset(p, a)]),
                    xl[local_offset(p, a) + 2], xl[local_offset(p, b) + 2],
                    Edges(mesh)[i].dist)
  IN << << global_offset(a) + 0, d.dE >>,
        << global_offset(a) + 2, d.c1 >>,
        << global_offset(b) + 0, -d.dE >>,
        << global_offset(b) + 2, d.c2 >> >>

CellEdgeJacobian(p, c, k, xl) ==
  LET ed == Cells(mesh)[c][k]
      fvm_n1 == ed.n1
      fvm_n2 == ed.n2
      inverse == FvmNodes(mesh)[fvm_n1].root > FvmNodes(mesh)[fvm_n2].root
      mun == (NodeMun(fvm_n1) + NodeMun(fvm_n2)) \div 2
      mup == (NodeMup(fvm_n1) + NodeMup(fvm_n2)) \div 2
      sn == mun * (IF inverse THEN -1 ELSE 1) * ed.tpa
      sp == mup * (IF inverse THEN -1 ELSE 1) * ed.tpa
  IN (IF on_processor(fvm_n1, p)
        THEN RowEntries(global_offset(fvm_n1) + 1, sn, Jn_edge_AD(p, xl, ed.edge))
             \o RowEntries(global_offset(fvm_n1) + 2, -sp, Jp_edge_AD(p, xl, ed.edge))
        ELSE << >>)
     \o
     (IF on_processor(fvm_n2, p)
        THEN RowEntries(global_offset(fvm_n2) + 1, -sn, Jn_edge_AD(p, xl, ed.edge))
             \o RowEntries(global_offset(fvm_n2) + 2, sp, Jp_edge_AD(p, xl, ed.edge))
        ELSE << >>)

Semiconductor_CellJacobian(p, rg, xl) ==
  ForEach([ c \in RegionCells(p, rg) |->
              ForEach([ k \in DOMAIN Cells(mesh)[c] |-> CellEdgeJacobian(p, c, k, xl) ],
                      DOMAIN Cells(mesh)[c]) ],
          RegionCells(p, rg))

Semiconductor_NodeJacobian(p, rg, xl) ==
  ForEach([ f \in on_processor_nodes(p, rg) |->
    LET n == xl[local_offset(p, f) + 1]
        h == xl[local_offset(p, f) + 2]
        g == global_offset(f)
    IN << << g + 0, g + 0, -NodeVolume(f) >>,
          << g + 0, g + 1, -pesudo_den * NodeVolume(f) >>,
          << g + 0, g + 2, pesudo_den * NodeVolume(f) >>,
          << g + 1, g + 1, -h * NodeVolume(f) >>,
          << g + 1, g + 2, -n * NodeVolume(f) >>,
          << g + 2, g + 1, -h * NodeVolume(f) >>,
          << g + 2, g + 2, -n * NodeVolume(f) >> >> ],
    on_processor_nodes(p, rg))

\* SemiconductorSimulationRegion::DDM1_Jacobian
Semiconductor_DDM1_Jacobian(p, rg, xl) ==
  Semiconductor_PoissonJacobian(p, rg, xl) \o Semiconductor_CellJacobian(p, rg, xl)
    \o Semiconductor_NodeJacobian(p, rg, xl)

\* the region loop of the Jacobian evaluation on rank p
Region_Jacobian(p, xl) ==
  ForEach([ rg \in DOMAIN RegionTypes(mesh) |->
              IF RegionTypes(mesh)[rg] = "MetalRegion"
              THEN Metal_DDM1_Jacobian(p, rg, xl)
              ELSE Semiconductor_DDM1_Jacobian(p, rg, xl) ],
          DOMAIN RegionTypes(mesh))

\* time derivative terms of the continuity equations (first order)
Semiconductor_Time_Dependent_Function(p, rg, xl) ==
  ForEach([ f \in on_processor_nodes(p, rg) |->
    LET n == xl[local_offset(p, f) + 1]
        h == xl[local_offset(p, f) + 2]
    IN << << global_offset(f) + 1,
             (-(n - node_data[p][f].n) * NodeVolume(f)) \div dt >>,
          << global_offset(f) + 2,
             (-(h - node_data[p][f].p) * NodeVolume(f)) \div dt >> >> ],
    on_processor_nodes(p, rg))
Semiconductor_Time_Dependent_Jacobian(p, rg, xl) ==
  ForEach([ f \in on_processor_nodes(p, rg) |->
    << << global_offset(f) + 1, global_offset(f) + 1,
          -(NodeVolume(f) \div dt) >>,
       << global_offset(f) + 2, global_offset(f) + 2,
          -(NodeVolume(f) \div dt) >> >> ],
    on_processor_nodes(p, rg))

Time_Dependent_Function(p, xl) ==
  IF ~TimeDependent THEN << >>
  ELSE ForEach([ rg \in DOMAIN RegionTypes(mesh) |->
                   IF RegionTypes(mesh)[rg] = "SemiconductorRegion"
                   THEN Semiconductor_Time_Dependent_Function(p, rg, xl)
                   ELSE << >> ],
               DOMAIN RegionTypes(mesh))
Time_Dependent_Jacobian(p, xl) ==
  IF ~TimeDependent THEN << >>
  ELSE ForEach([ rg \in DOMAIN RegionTypes(mesh) |->
                   IF RegionTypes(mesh)[rg] = "SemiconductorRegion"
                   THEN Semiconductor_Time_Dependent_Jacobian(p, rg, xl)
                   ELSE << >> ],
               DOMAIN RegionTypes(mesh))

\* ------------------------------------------------------------------------
\* Row-Surgery Utility on a matrix
\* ------------------------------------------------------------------------
RECURSIVE MatAddRowToRow(_, _, _)
\* PetscUtils::MatAddRowToRow
MatAddRowToRow(m, src_row, dst_row) ==
  IF src_row = << >> THEN m
  ELSE MatAddRowToRow(
         [ rc \in DOMAIN m |->
             IF rc[1] = Head(dst_row) THEN m[rc] + m[<< Head(src_row), rc[2] >>]
             ELSE m[rc] ],
         Tail(src_row), Tail(dst_row))

\* PetscUtils::MatZeroRows
MatZeroRows(m, clear_row, diag) ==
  [ rc \in DOMAIN m |->
      IF rc[1] \in Range(clear_row) THEN (IF rc[1] = rc[2] THEN diag ELSE 0)
      ELSE m[rc] ]

\* ------------------------------------------------------------------------
\* Boundary/Interface Stitcher: Jacobian
\* ------------------------------------------------------------------------
\* HomoInterfaceBC::DDM1_Jacobian: the (row, col, value) buffer of rank p
HomoInterface_Jacobian(p, b, xl) ==
  ForEach([ k \in DOMAIN bc_nodes(b) |->
    IF processor_id[bc_nodes(b)[k]] # p THEN << >>
    ELSE LET fvm_nodes == region_nodes(bc_nodes(b)[k])
         IN ForEach([ i \in 2..Len(fvm_nodes) |->
              LET gi == global_offset(fvm_nodes[i])
                  g0 == global_offset(fvm_nodes[1])
              IN IF TypeOf(mesh, fvm_nodes[i]) = "SemiconductorRegion"
                 THEN ForEach([ v \in 0..2 |->
                        [ j \in 1..6 |->
                            << gi + v,
                               IF j <= 3 THEN gi + (j - 1) ELSE g0 + (j - 4),
                               IF j = v + 1 THEN 1 ELSE IF j = v + 4 THEN -1 ELSE 0 >> ] ],
                        0..2)
                 ELSE << << gi, gi, 1 >>, << gi, g0, -1 >> >> ],
              2..Len(fvm_nodes)) ],
    DOMAIN bc_nodes(b))

\* the factor of the electrode current in the circuit equation
\* variant: the factor of a current-driven electrode in every mode
Ohmic_current_factor_one(p) == 1

\* the factor of the electrode current in the circuit equation
Ohmic_current_factor(p) ==
  IF inter_connect THEN ext_circuit[p].R
  ELSE IF ext_circuit[p].driven = "voltage"
  THEN (ext_circuit[p].L \div dt) + ext_circuit[p].R
  ELSE 1

\* variant: the displacement current block takes the factor of the
\* conduction current
Ohmic_disp_factor_exclusive(p) == Ohmic_current_factor(p)

\* the factor the displacement current block of EBM3_Jacobian applies: the
\* inter-connect test and the voltage-driven test are two separate ifs
Ohmic_disp_factor(p) ==
  LET ic == IF inter_connect THEN ext_circuit[p].R ELSE 1
  IN IF ext_circuit[p].driven = "voltage"
     THEN ((ext_circuit[p].L \div dt) + ext_circuit[p].R) * ic
     ELSE ic

\* OhmicContactBC::EBM3_Jacobian_Preprocess on rank p, reading matrix m
Ohmic_Jacobian_Preprocess(p, b, m) ==
  LET owned == ForEach([ k \in DOMAIN bc_nodes(b) |->
                 IF processor_id[bc_nodes(b)[k]] # p THEN << >>
                 ELSE region_nodes(bc_nodes(b)[k]) ], DOMAIN bc_nodes(b))
      semi == ForEach([ k \in DOMAIN bc_nodes(b) |->
                 IF processor_id[bc_nodes(b)[k]] # p THEN << >>
                 ELSE << region_nodes(bc_nodes(b)[k])[1] >> ], DOMAIN bc_nodes(b))
      \* derivative of the electrode current by the unknowns of node g,
      \* read from the rows of the contact node f
      dI(f, g) == [ nv \in 1..3 |->
                    << global_offset(g) + (nv - 1),
                       Ohmic_current_factor(p)
                         * (m[<< global_offset(f) + 1, global_offset(g) + (nv - 1) >>]
                            - m[<< global_offset(f) + 2, global_offset(g) + (nv - 1) >>])
                         * z_width >> ]
  IN [ src_row   |-> << >>,
       dst_row   |-> << >>,
       clear_row |-> ForEach([ k \in DOMAIN owned |->
                       IF TypeOf(mesh, owned[k]) = "SemiconductorRegion"
                       THEN << global_offset(owned[k]) + 0,
                               global_offset(owned[k]) + 1,
                               global_offset(owned[k]) + 2 >>
                       ELSE << global_offset(owned[k]) + 0 >> ],
                     DOMAIN owned),
       buffer    |-> ForEach([ k \in DOMAIN semi |->
                       ForEach([ nb \in Neighbors(mesh, semi[k]) |-> dI(semi[k], nb) ],
                               Neighbors(mesh, semi[k]))
                       \o dI(semi[k], semi[k]) ],
                     DOMAIN semi) ]

\* OhmicContactBC::EBM3_Jacobian: the (row, col, value) buffer of rank p
Ohmic_Jacobian(p, b, xl, buffer) ==
  LET bc == bc_global_offset(b)
      c  == ext_circuit[p]
  IN RowEntries(bc, 1, buffer)
     \o
     ForEach([ k \in DOMAIN bc_nodes(b) |->
       IF processor_id[bc_nodes(b)[k]] # p THEN << >>
       ELSE LET fvm_nodes == region_nodes(bc_nodes(b)[k])
            IN ForEach([ i \in DOMAIN fvm_nodes |->
                 LET g == global_offset(fvm_nodes[i])
                 IN IF TypeOf(mesh, fvm_nodes[i]) = "SemiconductorRegion"
                    THEN << << g + 0, g + 0, 1 >>, << g + 0, g + 1, 0 >>,
                            << g + 0, g + 2, 0 >>, << g + 0, bc, -1 >>,
                            << g + 1, g + 0, 0 >>, << g + 1, g + 1, 1 >>,
                            << g + 1, g + 2, 0 >>, << g + 1, bc, 0 >>,
                            << g + 2, g + 0, 0 >>, << g + 2, g + 1, 0 >>,
                            << g + 2, g + 2, 1 >>, << g + 2, bc, 0 >> >>
                         \o
                         (IF ~TimeDependent THEN << >>
                          ELSE ForEach([ nb \in Neighbors(mesh, fvm_nodes[i]) |->
                                 LET ed == Edges(mesh)[EdgeBetween(mesh, fvm_nodes[i], nb)]
                                     d  == Ohmic_disp_factor(p) *
                                             (((ed.area * NodeEps(fvm_nodes[i])) \div (ed.dist * dt))
                                                * z_width)
                                 IN << << bc, g + 0, d >>,
                                       << bc, global_offset(nb) + 0, -d >> >> ],
                                 Neighbors(mesh, fvm_nodes[i])))
                    ELSE << << g, g, 1 >>,
                            << g, global_offset(fvm_nodes[1]), -1 >> >> ],
                 DOMAIN fvm_nodes) ],
       DOMAIN bc_nodes(b))
     \o
     (IF ~is_last_processor(p) THEN << >>
      ELSE IF inter_connect THEN << << bc, bc, 1 >> >>
      ELSE IF c.driven = "voltage"
        THEN << << bc, bc, 1 + ((((c.L \div dt) + c.R) * c.C) \div dt) >> >>
        ELSE << >>)

\* ------------------------------------------------------------------------
\* Dispatch over the boundary conditions of the mesh
\* ------------------------------------------------------------------------
BC_Function_Preprocess(p, b, v) ==
  IF BCs(mesh)[b].type = "HomoInterface"
  THEN HomoInterface_Function_Preprocess(p, b)
  ELSE Ohmic_Function_Preprocess(p, b, v)

BC_Function(p, b, xl, buffer) ==
  IF BCs(mesh)[b].type = "HomoInterface"
  THEN HomoInterface_Function(p, b, xl)
  ELSE Ohmic_Function(p, b, xl, buffer)

BC_Jacobian_Preprocess(p, b, m) ==
  IF BCs(mesh)[b].type = "HomoInterface"
  THEN HomoInterface_Jacobian_Preprocess(p, b)
  ELSE Ohmic_Jacobian_Preprocess(p, b, m)

BC_Jacobian(p, b, xl, buffer) ==
  IF BCs(mesh)[b].type = "HomoInterface"
  THEN HomoInterface_Jacobian(p, b, xl)
  ELSE Ohmic_Jacobian(p, b, xl, buffer)

\* ------------------------------------------------------------------------
\* Nonzero pattern of the Jacobian: the positions a boundary reserves by
\* adding zeros before the first final assembly
\* ------------------------------------------------------------------------
\* the columns of the unknowns of FVM node f
NodeCols(f) ==
  { global_offset(f) + (v - 1) : v \in 1..n_variables(TypeOf(mesh, f)) }

\* variant: only the rows of the reference node are reserved
HomoInterface_Jacobian_Reserve_rows_only(p, b) ==
  UNION { LET fvm_nodes == region_nodes(bc_nodes(b)[k])
          IN UNION { LET fi == fvm_nodes[i]
                         f0 == fvm_nodes[1]
                     IN IF TypeOf(mesh, fi) = "SemiconductorRegion"
                        THEN { global_offset(f0) + v : v \in 0..2 }
                               \X (NodeCols(fi) \cup UNION { NodeCols(nb) : nb \in Neighbors(mesh, fi) })
                        ELSE { global_offset(f0) + 0 }
                               \X ({ global_offset(fi) + 0 }
                                     \cup { global_offset(nb) + 0 : nb \in Neighbors(mesh, fi) })
                     : i \in 2..Len(fvm_nodes) }
          : k \in { j \in DOMAIN bc_nodes(b) : processor_id[bc_nodes(b)[j]] = p } }

\* HomoInterfaceBC::DDM1_Jacobian_Reserve: the positions rank p adds zeros to
HomoInterface_Jacobian_Reserve(p, b) ==
  UNION { LET fvm_nodes == region_nodes(bc_nodes(b)[k])
          IN UNION { LET fi == fvm_nodes[i]
                         f0 == fvm_nodes[1]
                     IN IF TypeOf(mesh, fi) = "SemiconductorRegion"
                        THEN ({ global_offset(f0) + v : v \in 0..2 }
                               \X (NodeCols(fi) \cup UNION { NodeCols(nb) : nb \in Neighbors(mesh, fi) }))
                             \cup { << global_offset(fi) + v, global_offset(f0) + v >> : v \in 0..2 }
                        ELSE ({ global_offset(f0) + 0 }
                               \X ({ global_offset(fi) + 0 }
                                     \cup { global_offset(nb) + 0 : nb \in Neighbors(mesh, fi) }))
                             \cup { << global_offset(fi) + 0, global_offset(f0) + 0 >> }
                     : i \in 2..Len(fvm_nodes) }
          : k \in { j \in DOMAIN bc_nodes(b) : processor_id[bc_nodes(b)[j]] = p } }

\* the columns rank p contributes to bc_node_reserve: the unknowns of its
\* semiconductor contact nodes and of their neighbours
Ohmic_bc_node_reserve(p, b) ==
  UNION { LET f == region_nodes(bc_nodes(b)[k])[1]
          IN NodeCols(f) \cup UNION { NodeCols(nb) : nb \in Neighbors(mesh, f) }
          : k \in { j \in DOMAIN bc_nodes(b) : processor_id[bc_nodes(b)[j]] = p } }

\* OhmicContactBC::EBM3_Jacobian_Reserve: the positions rank p adds zeros to
\* (no lattice temperature); the last rank reserves the electrode row from
\* the gathered columns of all ranks
Ohmic_Jacobian_Reserve(p, b) ==
  UNION { LET fvm_nodes == region_nodes(bc_nodes(b)[k])
          IN UNION { LET fi == fvm_nodes[i]
                     IN IF TypeOf(mesh, fi) = "SemiconductorRegion"
                        THEN NodeCols(fi) \X { bc_global_offset(b) }
                        ELSE IF TypeOf(mesh, fi) \in {"ElectrodeRegion", "InsulatorRegion"}
                        THEN { << global_offset(fi) + 0, global_offset(fvm_nodes[1]) + 0 >> }
                        ELSE {}
                     : i \in DOMAIN fvm_nodes }
          : k \in { j \in DOMAIN bc_nodes(b) : processor_id[bc_nodes(b)[j]] = p } }
    \cup (IF is_last_processor(p)
          THEN { bc_global_offset(b) }
                 \X ({ bc_global_offset(b) }
                       \cup UNION { Ohmic_bc_node_reserve(q, b) : q \in Ranks })
          ELSE {})

BC_Jacobian_Reserve(p, b) ==
  IF BCs(mesh)[b].type = "HomoInterface"
  THEN HomoInterface_Jacobian_Reserve(p, b)
  ELSE Ohmic_Jacobian_Reserve(p, b)

\* the collectives of the reserve loop: one gather per electrode
Reserve_Collectives(p) ==
  IF mode = "jacobian" /\ ~jacobian_matrix_first_assemble[p]
  THEN ForEach([ b \in DOMAIN BCs(mesh) |->
                   IF HasCircuit(mesh, b) THEN << "Parallel::allgather" >> ELSE << >> ],
               DOMAIN BCs(mesh))
  ELSE << >>

\* the positions MatSetValues touches: a zero value is skipped once
\* MAT_IGNORE_ZERO_ENTRIES is set
Positions(buf, ignore) ==
  { << buf[i][1], buf[i][2] >> : i \in { j \in DOMAIN buf : ~ignore \/ buf[j][3] # 0 } }

\* the positions MatAddRowToRow touches: the stored entries of each source
\* row, at the destination row
MergePositions(m, pattern, src_row, dst_row, ignore) ==
  UNION { { << dst_row[k], rc[2] >> :
              rc \in { e \in pattern : e[1] = src_row[k] /\ (~ignore \/ m[e] # 0) } }
          : k \in DOMAIN src_row }

\* ------------------------------------------------------------------------
\* Initial state
\* ------------------------------------------------------------------------
InitialPsi(m) ==
  CASE m = "metal2" -> << 10, 3 >>
    [] m = "metal4" -> << 10, 3, 5, 8 >>
    [] m = "iface2" -> << 12, 10, 3, 5 >>
    [] m = "iface3" -> << 12, 10, 3, 5, 5, 8 >>
    [] m = "ohmic"  -> << 44, 30, 37 >>
    [] m = "mixed"  -> << 12, 10, 3, 5 >>
    [] m = "badiface" -> << 12, 10, 3, 5 >>

Circuit(driven, R, L, C) ==
  [ driven |-> driven, R |-> R, L |-> L, C |-> C, Vapp |-> 50, Iapp |-> 3,
    potential |-> 40, current |-> 2, cap_current |-> 1,
    current_itering |-> 0, potential_itering |-> 0 ]

Circuits(m) ==
  IF m = "ohmic"
  THEN { Circuit(d, rlc[1], rlc[2], rlc[3]) :
           d \in {"voltage", "current"}, rlc \in { << 0, 0, 0 >>, << 1, 2, 4 >> } }
  ELSE { Circuit("voltage", 0, 0, 0) }

Phases == << "Scatter", "RegionAssemble", "BoundaryPreprocess", "RowSurgery",
             "BoundaryAssemble", "Scale" >>

\* the state after EBM3Solver::create_solver on one of the meshes
create_solver(meshes, state) ==
  /\ mesh \in meshes
  /\ n_processors \in 1..MaxRanks
  /\ processor_id \in [ Roots(mesh) -> 0..(n_processors - 1) ]
  /\ layout = build_layout
  /\ z_width \in (IF mesh = "ohmic" THEN {1, 2} ELSE {1})
  /\ TimeDependent \in (IF mesh = "ohmic" THEN BOOLEAN ELSE {FALSE})
  /\ \E c \in Circuits(mesh) : ext_circuit = [ p \in 0..(n_processors - 1) |-> c ]
  /\ node_data = [ p \in 0..(n_processors - 1) |->
                   [ f \in FvmIds(mesh) |->
                     IF TypeOf(mesh, f) = "MetalRegion"
                     THEN [ psi |-> InitialPsi(mesh)[f], psi_last |-> InitialPsi(mesh)[f],
                            n |-> 0, n_last |-> 0, p |-> 0, p_last |-> 0 ]
                     ELSE LET n0 == electron_density(f)
                                      + (IF FvmNodes(mesh)[f].root % 3 = 1 THEN 1 ELSE 0)
                          IN [ psi |-> InitialPsi(mesh)[f], psi_last |-> InitialPsi(mesh)[f],
                               n |-> n0, n_last |-> n0,
                               p |-> hole_density(f), p_last |-> hole_density(f) ] ] ]
  /\ x  = ZeroVec(Rows(mesh))
  /\ Ld = [ row \in Rows(mesh) |-> 1 ]
  /\ lx = [ p \in 0..(n_processors - 1) |-> ZeroVec(0..(n_local_dofs(p) - 1)) ]
  /\ r  = ZeroVec(Rows(mesh))
  /\ J  = ZeroMat(Rows(mesh))
  /\ stash  = [ p \in 0..(n_processors - 1) |-> ZeroVec(Rows(mesh)) ]
  /\ Jstash = [ p \in 0..(n_processors - 1) |-> ZeroMat(Rows(mesh)) ]
  /\ scaled = [ r |-> {}, J |-> {},
               r_by |-> [ row \in Rows(mesh) |-> 1 ],
               J_by |-> [ row \in Rows(mesh) |-> 1 ] ]
  /\ surgery = [ p \in 0..(n_processors - 1) |->
                 [ src_row |-> << >>, dst_row |-> << >>, clear_row |-> << >> ] ]
  /\ current_buffer = [ p \in 0..(n_processors - 1) |-> [ b \in DOMAIN BCs(mesh) |-> << >> ] ]
  /\ jac_buffer = [ p \in 0..(n_processors - 1) |-> [ b \in DOMAIN BCs(mesh) |-> << >> ] ]
  /\ jacobian_matrix_first_assemble = [ p \in 0..(n_processors - 1) |-> FALSE ]
  /\ pc = [ p \in 0..(n_processors - 1) |-> "Idle" ]
  /\ mode = "none"
  /\ hist = [ p \in 0..(n_processors - 1) |-> << >> ]
  /\ solve = state
  /\ iter = 0
  /\ last_call = "create_solver"
  /\ add_value_flag = [ p \in 0..(n_processors - 1) |-> "NOT_SET_VALUES" ]
  /\ collectives = [ p \in 0..(n_processors - 1) |-> << >> ]
  /\ nz_pattern = {}
  /\ nz_stash = [ p \in 0..(n_processors - 1) |-> {} ]
  /\ ignore_zero_entries = [ p \in 0..(n_processors - 1) |-> FALSE ]
  /\ n_reserve = [ p \in 0..(n_processors - 1) |-> 0 ]
  /\ n_solve = 0

\* no boundary node is being preprocessed on its own
EmptyTriple == [ src_row |-> << >>, dst_row |-> << >>, clear_row |-> << >> ]
no_boundary_node ==
  /\ bd_node = [ bc |-> "none" ]
  /\ pre_rows = [ called |-> {}, function |-> EmptyTriple, jacobian |-> EmptyTriple ]

\* no Jacobian routine is being followed statement by statement
no_stencil ==
  /\ numdir = 0
  /\ ad_routine = [ name |-> "none" ]
  /\ ad_pc = 0
  /\ ad_live = {}
  /\ ad_eval = [ at |-> 0, numdir |-> 0, uses |-> {}, cols |-> 0 ]
  /\ ad_run = 0

\* no error estimate has been computed
no_LTE == [ x |-> << >>, xp |-> << >>, N |-> 0, r |-> [ num |-> 0, den |-> 1 ] ]

\* no line search is in progress
Init ==
  /\ create_solver(MeshNames, bc_setup(mesh))
  /\ inter_connect = FALSE
  /\ enable_T = [ Tl |-> FALSE, Tn |-> FALSE, Tp |-> FALSE ]
  /\ snes_x = << >>
  /\ snes_y = << >>
  /\ snes_w = << >>
  /\ changed_y = FALSE
  /\ changed_w = FALSE
  /\ applied = << >>
  /\ LTE = no_LTE
  /\ no_boundary_node
  /\ no_stencil

\* ------------------------------------------------------------------------
\* One residual or Jacobian evaluation (build_petsc_sens_residual,
\* build_petsc_sens_jacobian), rank by rank; the assembly barriers are
\* collective
\* ------------------------------------------------------------------------
\* a function that adds values first flushes the vector or matrix when the
\* previous operation on it was of another kind, and leaves ADD_VALUES behind
AddValuesEnter(flag) ==
  IF flag # "ADD_VALUES" /\ flag # "NOT_SET_VALUES"
  THEN << "Assembly" >> ELSE << >>

RECURSIVE CallCollectives(_, _)
\* the collectives of n such functions called in a row
CallCollectives(n, flag) ==
  IF n = 0 THEN << >>
  ELSE AddValuesEnter(flag) \o CallCollectives(n - 1, "ADD_VALUES")

CallFlag(n, flag) == IF n = 0 THEN flag ELSE "ADD_VALUES"

\* the function calls of the region pass: every region's equations, its
\* time derivative terms in a transient simulation, its hanging nodes
n_region_calls ==
  Len(RegionTypes(mesh)) * (IF TimeDependent THEN 3 ELSE 2)

\* variant: a rank flushes after the region loop only if it has set values
Region_Collectives_if_values(p, flag) ==
  CallCollectives(n_region_calls, flag)
    \o (IF Region_Function(p, lx[p]) # << >> THEN << "Assembly" >> ELSE << >>)
    \o Reserve_Collectives(p)
    \o << "Assembly" >>

\* the collectives rank p enters from the region loop to the assembly of
\* the region values
Region_Collectives(p, flag) ==
  CallCollectives(n_region_calls, flag) \o Reserve_Collectives(p) \o << "Assembly" >>

\* the collectives rank p enters from the boundary loop to the final assembly
Boundary_Collectives(p, flag) ==
  CallCollectives(Len(BCs(mesh)), flag) \o << "Assembly" >>

Collective(p, ops, flag) ==
  /\ collectives' = [ collectives EXCEPT ![p] = @ \o ops ]
  /\ add_value_flag' = [ add_value_flag EXCEPT ![p] = flag ]

Step(p, from, to) ==
  /\ mode # "none"
  /\ pc[p] = from
  /\ pc' = [ pc EXCEPT ![p] = to ]

Record(p, phase) == hist' = [ hist EXCEPT ![p] = Append(@, phase) ]

\* scatter x to the local buffer, then zero the rank's part of r or J
Scatter(p) ==
  /\ Step(p, "Scatter", "RegionAssemble")
  /\ Record(p, "Scatter")
  /\ Collective(p, << "VecScatter" >>, "NOT_SET_VALUES")
  /\ lx' = [ lx EXCEPT ![p] = VecScatter(p, x) ]
  /\ IF mode = "residual"
     THEN /\ r' = [ row \in Rows(mesh) |-> IF RowOwner(row) = p THEN 0 ELSE r[row] ]
          /\ scaled' = [ scaled EXCEPT !.r = @ \ OwnedRows(p),
                 !.r_by = [ row \in DOMAIN @ |-> IF RowOwner(row) = p THEN 1 ELSE @[row] ] ]
          /\ J' = J
     ELSE /\ J' = [ rc \in DOMAIN J |-> IF RowOwner(rc[1]) = p THEN 0 ELSE J[rc] ]
          /\ scaled' = [ scaled EXCEPT !.J = @ \ OwnedRows(p),
                 !.J_by = [ row \in DOMAIN @ |-> IF RowOwner(row) = p THEN 1 ELSE @[row] ] ]
          /\ r' = r
  /\ UNCHANGED << setup, stencil_vars, damping_vars, pattern_vars, n_solve, ext_circuit, node_data, x, Ld, stash, Jstash, surgery,
                  current_buffer, jac_buffer, jacobian_matrix_first_assemble,
                  mode, solve, iter, last_call >>

\* the region loop (and the time derivative terms)
RegionAssemble(p) ==
  /\ Step(p, "RegionAssemble", "WaitRegion")
  /\ Record(p, "RegionAssemble")
  /\ Collective(p, Region_Collectives(p, add_value_flag[p]),
                   CallFlag(n_region_calls, add_value_flag[p]))
  /\ IF mode = "residual"
     THEN /\ stash' = [ stash EXCEPT ![p] =
                          VecSetValuesAdd(@, Region_Function(p, lx[p])
                                               \o Time_Dependent_Function(p, lx[p])) ]
          /\ UNCHANGED << Jstash, nz_stash, n_reserve >>
     ELSE /\ Jstash' = [ Jstash EXCEPT ![p] =
                           MatSetValuesAdd(@, Region_Jacobian(p, lx[p])
                                                \o Time_Dependent_Jacobian(p, lx[p])) ]
          /\ nz_stash' = [ nz_stash EXCEPT ![p] =
                @ \cup Positions(Region_Jacobian(p, lx[p])
                                   \o Time_Dependent_Jacobian(p, lx[p]),
                                 ignore_zero_entries[p])
                  \cup (IF jacobian_matrix_first_assemble[p] \/ ignore_zero_entries[p]
                        THEN {}
                        ELSE UNION { BC_Jacobian_Reserve(p, b) : b \in DOMAIN BCs(mesh) }) ]
          /\ n_reserve' = [ n_reserve EXCEPT ![p] =
                IF jacobian_matrix_first_assemble[p] THEN @ ELSE @ + 1 ]
          /\ stash' = stash
  /\ UNCHANGED << setup, stencil_vars, damping_vars, nz_pattern, ignore_zero_entries, n_solve, ext_circuit, node_data, x, Ld, lx, r, J, scaled, surgery,
                  current_buffer, jac_buffer, jacobian_matrix_first_assemble,
                  mode, solve, iter, last_call >>

\* VecAssemblyBegin/End, MatAssemblyBegin/End: every rank's values arrive
Assemble(from, to) ==
  /\ mode # "none"
  /\ \A p \in Ranks : pc[p] = from
  /\ pc' = [ p \in Ranks |-> to ]
  /\ IF mode = "residual"
     THEN /\ r' = [ row \in Rows(mesh) |->
                      r[row] + SumOver([ p \in Ranks |-> stash[p][row] ], Ranks) ]
          /\ stash' = [ p \in Ranks |-> ZeroVec(Rows(mesh)) ]
          /\ UNCHANGED << J, Jstash, nz_pattern, nz_stash >>
     ELSE /\ J' = [ rc \in DOMAIN J |->
                      J[rc] + SumOver([ p \in Ranks |-> Jstash[p][rc] ], Ranks) ]
          /\ Jstash' = [ p \in Ranks |-> ZeroMat(Rows(mesh)) ]
          /\ nz_pattern' = nz_pattern \cup UNION { nz_stash[p] : p \in Ranks }
          /\ nz_stash' = [ p \in Ranks |-> {} ]
          /\ UNCHANGED << r, stash >>
  /\ UNCHANGED << setup, stencil_vars, damping_vars, ignore_zero_entries, n_reserve, n_solve, collective_vars, ext_circuit, node_data, x, Ld, lx, scaled, surgery,
                  current_buffer, jac_buffer, jacobian_matrix_first_assemble,
                  mode, hist, solve, iter, last_call >>

\* variant: the ranks leave the barrier past the preprocess loop
AssembleRegion_skip_preprocess == Assemble("WaitRegion", "RowSurgery")

AssembleRegion == Assemble("WaitRegion", "BoundaryPreprocess")

\* the preprocess loop over the boundary conditions
BoundaryPreprocess(p) ==
  /\ Step(p, "BoundaryPreprocess", "RowSurgery")
  /\ Record(p, "BoundaryPreprocess")
  /\ Collective(p, << >>, add_value_flag[p])
  /\ IF mode = "residual"
     THEN LET pre == [ b \in DOMAIN BCs(mesh) |-> BC_Function_Preprocess(p, b, r) ]
          IN /\ surgery' = [ surgery EXCEPT ![p] =
                  [ src_row   |-> ForEach([ b \in DOMAIN pre |-> pre[b].src_row ], DOMAIN pre),
                    dst_row   |-> ForEach([ b \in DOMAIN pre |-> pre[b].dst_row ], DOMAIN pre),
                    clear_row |-> ForEach([ b \in DOMAIN pre |-> pre[b].clear_row ], DOMAIN pre) ] ]
             /\ current_buffer' = [ current_buffer EXCEPT ![p] =
                  [ b \in DOMAIN pre |-> pre[b].current ] ]
             /\ jac_buffer' = jac_buffer
             /\ ignore_zero_entries' = ignore_zero_entries
     ELSE LET pre == [ b \in DOMAIN BCs(mesh) |-> BC_Jacobian_Preprocess(p, b, J) ]
          IN /\ surgery' = [ surgery EXCEPT ![p] =
                  [ src_row   |-> ForEach([ b \in DOMAIN pre |-> pre[b].src_row ], DOMAIN pre),
                    dst_row   |-> ForEach([ b \in DOMAIN pre |-> pre[b].dst_row ], DOMAIN pre),
                    clear_row |-> ForEach([ b \in DOMAIN pre |-> pre[b].clear_row ], DOMAIN pre) ] ]
             /\ jac_buffer' = [ jac_buffer EXCEPT ![p] =
                  [ b \in DOMAIN pre |-> pre[b].buffer ] ]
             /\ current_buffer' = current_buffer
             /\ ignore_zero_entries' = [ ignore_zero_entries EXCEPT ![p] =
                  IF jacobian_matrix_first_assemble[p] THEN @ ELSE TRUE ]
  /\ UNCHANGED << setup, stencil_vars, damping_vars, nz_pattern, nz_stash, n_reserve, n_solve, ext_circuit, node_data, x, Ld, lx, r, J, stash, Jstash,
                  scaled, jacobian_matrix_first_assemble, mode, solve, iter, last_call >>

\* VecAddClearRow on r, MatAddRowToRow and MatZeroRows on J
RowSurgery(p) ==
  /\ Step(p, "RowSurgery", "BoundaryAssemble")
  /\ Record(p, "RowSurgery")
  /\ Collective(p, << >>, "NOT_SET_VALUES")
  /\ IF mode = "residual"
     THEN /\ r' = VecAddClearRow(r, surgery[p].src_row, surgery[p].dst_row,
                                 surgery[p].clear_row)
          /\ UNCHANGED << J, nz_stash >>
     ELSE /\ J' = MatZeroRows(MatAddRowToRow(J, surgery[p].src_row, surgery[p].dst_row),
                              surgery[p].clear_row, 0)
          /\ nz_stash' = [ nz_stash EXCEPT ![p] =
                @ \cup MergePositions(J, nz_pattern, surgery[p].src_row,
                                      surgery[p].dst_row, ignore_zero_entries[p]) ]
          /\ r' = r
  /\ UNCHANGED << setup, stencil_vars, damping_vars, nz_pattern, ignore_zero_entries, n_reserve, n_solve, ext_circuit, node_data, x, Ld, lx, stash, Jstash, scaled,
                  surgery, current_buffer, jac_buffer, jacobian_matrix_first_assemble,
                  mode, solve, iter, last_call >>

\* the equation loop over the boundary conditions
BoundaryAssemble(p) ==
  /\ Step(p, "BoundaryAssemble", "WaitBoundary")
  /\ Record(p, "BoundaryAssemble")
  /\ Collective(p, Boundary_Collectives(p, add_value_flag[p]),
                   CallFlag(Len(BCs(mesh)), add_value_flag[p]))
  /\ IF mode = "residual"
     THEN /\ stash' = [ stash EXCEPT ![p] =
                VecSetValuesAdd(@,
                  ForEach([ b \in DOMAIN BCs(mesh) |->
                            BC_Function(p, b, lx[p], current_buffer[p][b]) ],
                          DOMAIN BCs(mesh))) ]
          /\ current_buffer' = [ current_buffer EXCEPT ![p] =
                [ b \in DOMAIN BCs(mesh) |->
                    IF HasCircuit(mesh, b)
                    THEN current_buffer[p][b] \o Ohmic_DisplacementCurrent(p, b, lx[p])
                    ELSE current_buffer[p][b] ] ]
          /\ ext_circuit' = [ ext_circuit EXCEPT ![p] =
                IF \E b \in DOMAIN BCs(mesh) : HasCircuit(mesh, b)
                THEN LET b == CHOOSE b \in DOMAIN BCs(mesh) : HasCircuit(mesh, b)
                     IN [ @ EXCEPT
                            !.current_itering =
                               Ohmic_current(p, b, lx[p], current_buffer[p][b]),
                            !.potential_itering = lx[p][bc_local_offset(p, b)] ]
                ELSE @ ]
          /\ UNCHANGED << Jstash, nz_stash >>
     ELSE /\ Jstash' = [ Jstash EXCEPT ![p] =
                MatSetValuesAdd(@,
                  ForEach([ b \in DOMAIN BCs(mesh) |->
                            BC_Jacobian(p, b, lx[p], jac_buffer[p][b]) ],
                          DOMAIN BCs(mesh))) ]
          /\ nz_stash' = [ nz_stash EXCEPT ![p] =
                @ \cup Positions(ForEach([ b \in DOMAIN BCs(mesh) |->
                                            BC_Jacobian(p, b, lx[p], jac_buffer[p][b]) ],
                                          DOMAIN BCs(mesh)),
                                 ignore_zero_entries[p]) ]
          /\ UNCHANGED << stash, current_buffer, ext_circuit >>
  /\ UNCHANGED << setup, stencil_vars, damping_vars, nz_pattern, ignore_zero_entries, n_reserve, n_solve, node_data, x, Ld, lx, r, J, scaled, surgery, jac_buffer,
                  jacobian_matrix_first_assemble, mode, solve, iter, last_call >>

AssembleBoundary == Assemble("WaitBoundary", "Scale")


\* variant: the Jacobian is returned as assembled, only the residual is scaled
Scale_residual_only(p) ==
  /\ Step(p, "Scale", "Done")
  /\ Record(p, "Scale")
  /\ Collective(p, << >>, add_value_flag[p])
  /\ IF mode = "residual"
     THEN /\ scaled' = [ scaled EXCEPT !.r = @ \cup OwnedRows(p),
                 !.r_by = [ row \in DOMAIN @ |->
                            IF RowOwner(row) = p THEN @[row] * Ld[row] ELSE @[row] ] ]
          /\ jacobian_matrix_first_assemble' = jacobian_matrix_first_assemble
     ELSE /\ scaled' = [ scaled EXCEPT !.J = @ \cup OwnedRows(p) ]
          /\ jacobian_matrix_first_assemble' =
               [ jacobian_matrix_first_assemble EXCEPT ![p] = TRUE ]
  /\ UNCHANGED << setup, stencil_vars, damping_vars, pattern_vars, n_solve, ext_circuit, node_data, x, Ld, lx, r, J, stash, Jstash,
                  surgery, current_buffer, jac_buffer, mode, solve, iter, last_call >>

\* variant: the Jacobian evaluation leaves its flag as it was
Scale_keep_flag(p) ==
  /\ Step(p, "Scale", "Done")
  /\ Record(p, "Scale")
  /\ Collective(p, << >>, add_value_flag[p])
  /\ IF mode = "residual"
     THEN /\ scaled' = [ scaled EXCEPT !.r = @ \cup OwnedRows(p),
                 !.r_by = [ row \in DOMAIN @ |->
                            IF RowOwner(row) = p THEN @[row] * Ld[row] ELSE @[row] ] ]
          /\ jacobian_matrix_first_assemble' = jacobian_matrix_first_assemble
     ELSE /\ scaled' = [ scaled EXCEPT !.J = @ \cup OwnedRows(p),
                 !.J_by = [ row \in DOMAIN @ |->
                            IF RowOwner(row) = p THEN @[row] * Ld[row] ELSE @[row] ] ]
          /\ jacobian_matrix_first_assemble' = jacobian_matrix_first_assemble
  /\ UNCHANGED << setup, stencil_vars, damping_vars, pattern_vars, n_solve, ext_circuit, node_data, x, Ld, lx, r, J, stash, Jstash,
                  surgery, current_buffer, jac_buffer, mode, solve, iter, last_call >>

\* scale the rank's rows by L; a Jacobian evaluation then sets its flag
Scale(p) ==
  /\ Step(p, "Scale", "Done")
  /\ Record(p, "Scale")
  /\ Collective(p, << >>, add_value_flag[p])
  /\ IF mode = "residual"
     THEN /\ scaled' = [ scaled EXCEPT !.r = @ \cup OwnedRows(p),
                 !.r_by = [ row \in DOMAIN @ |->
                            IF RowOwner(row) = p THEN @[row] * Ld[row] ELSE @[row] ] ]
          /\ jacobian_matrix_first_assemble' = jacobian_matrix_first_assemble
     ELSE /\ scaled' = [ scaled EXCEPT !.J = @ \cup OwnedRows(p),
                 !.J_by = [ row \in DOMAIN @ |->
                            IF RowOwner(row) = p THEN @[row] * Ld[row] ELSE @[row] ] ]
          /\ jacobian_matrix_first_assemble' =
               [ jacobian_matrix_first_assemble EXCEPT ![p] = TRUE ]
  /\ UNCHANGED << setup, stencil_vars, damping_vars, pattern_vars, n_solve, ext_circuit, node_data, x, Ld, lx, r, J, stash, Jstash,
                  surgery, current_buffer, jac_buffer, mode, solve, iter, last_call >>

\* the evaluation returns to the nonlinear solver on every rank
EndEvaluation ==
  /\ mode # "none"
  /\ \A p \in Ranks : pc[p] = "Done"
  /\ pc' = [ p \in Ranks |-> "Idle" ]
  /\ mode' = "none"
  /\ UNCHANGED << setup, stencil_vars, damping_vars, pattern_vars, n_solve, collective_vars, ext_circuit, node_data, x, Ld, lx, r, J, stash, Jstash,
                  scaled, surgery, current_buffer, jac_buffer,
                  jacobian_matrix_first_assemble, hist, solve, iter, last_call >>

\* ------------------------------------------------------------------------
\* The solve around the evaluations
\* ------------------------------------------------------------------------
\* EBM3Solver::pre_solve_process(load_solution = true)
\* variant: the solve begins whatever the boundary setup reported
pre_solve_process_unchecked ==
  /\ solve \in {"created", "fatal"}
  /\ x' = Fill_x
  /\ Ld' = Fill_L
  /\ solve' = "iterating"
  /\ last_call' = "pre_solve_process"
  /\ UNCHANGED << setup, stencil_vars, damping_vars, pattern_vars, n_solve, collective_vars, ext_circuit, node_data, lx, r, J, stash, Jstash, scaled,
                  surgery, current_buffer, jac_buffer, jacobian_matrix_first_assemble,
                  pc, mode, hist, iter >>

pre_solve_process ==
  /\ solve = "created"
  /\ x' = Fill_x
  /\ Ld' = Fill_L
  /\ solve' = "iterating"
  /\ last_call' = "pre_solve_process"
  /\ UNCHANGED << setup, stencil_vars, damping_vars, pattern_vars, n_solve, collective_vars, ext_circuit, node_data, lx, r, J, stash, Jstash, scaled,
                  surgery, current_buffer, jac_buffer, jacobian_matrix_first_assemble,
                  pc, mode, hist, iter >>

\* the nonlinear solver calls the residual callback at the initial guess and
\* at every trial point, and the Jacobian callback before every step
BeginEvaluation(m) ==
  /\ solve = "iterating"
  /\ mode = "none"
  /\ IF m = "residual"
     THEN last_call \in {"pre_solve_process", "snes_step"}
     ELSE last_call \in {"build_petsc_sens_residual", "flush_system"} /\ iter < MaxIter
  /\ mode' = m
  /\ pc' = [ p \in Ranks |-> "Scatter" ]
  /\ hist' = [ p \in Ranks |-> << >> ]
  /\ collectives' = [ p \in Ranks |-> << >> ]
  /\ add_value_flag' = [ p \in Ranks |-> "NOT_SET_VALUES" ]
  /\ last_call' = (IF m = "residual" THEN "build_petsc_sens_residual"
                                     ELSE "build_petsc_sens_jacobian")
  /\ UNCHANGED << setup, stencil_vars, damping_vars, pattern_vars, n_solve, ext_circuit, node_data, x, Ld, lx, r, J, stash, Jstash,
                  scaled, surgery, current_buffer, jac_buffer,
                  jacobian_matrix_first_assemble, solve, iter >>

BeginResidual == BeginEvaluation("residual")
BeginJacobian == BeginEvaluation("jacobian")

\* EBM3Solver::positive_density_damping: x the previous iterate, y the search
\* direction, w the candidate; the result is the candidate after the call
onePerCMC == 1
psi_update_limit == 10
positive_density_damping(xx, yy, ww) ==
  [ row \in DOMAIN ww |->
      IF ~IsNodeRow(row) \/ TypeOf(mesh, RowNode(row)) # "SemiconductorRegion"
      THEN ww[row]
      ELSE IF row = global_offset(RowNode(row))
           THEN IF yy[row] > psi_update_limit THEN xx[row] - psi_update_limit
                ELSE IF yy[row] < -psi_update_limit THEN xx[row] + psi_update_limit
                ELSE ww[row]
           ELSE IF ww[row] < onePerCMC THEN onePerCMC ELSE ww[row] ]

\* ------------------------------------------------------------------------
\* Line-search post-check (damping / projection) of the EBM3 solver.  The
\* vectors are kept by (FVM node, variable); the slot of electrode b is the
\* key << -b, "Ve" >>.  Potentials are in units of Vut/600, a carrier
\* temperature unknown is the product density * temperature.
\* ------------------------------------------------------------------------
T_external == 300
Vut  == 600
Volt == 24000

Min(a, b) == IF a < b THEN a ELSE b
Abs(a)    == IF a < 0 THEN -a ELSE a
sign(a)   == IF a < 0 THEN -1 ELSE 1

\* the unknowns of an FVM node of a region type under the advanced model
ebm_variables(type) ==
  IF type = "SemiconductorRegion"
  THEN {"psi", "n", "p"} \cup (IF enable_T.Tl THEN {"Tl"} ELSE {})
                         \cup (IF enable_T.Tn THEN {"Tn"} ELSE {})
                         \cup (IF enable_T.Tp THEN {"Tp"} ELSE {})
  ELSE {"psi"} \cup (IF enable_T.Tl THEN {"Tl"} ELSE {})

array_offset(b) == << -b, "Ve" >>

Unknowns ==
  { << f, v >> : f \in FvmIds(mesh), v \in {"psi", "n", "p", "Tl", "Tn", "Tp"} }
     \cap { k \in (FvmIds(mesh) \X {"psi", "n", "p", "Tl", "Tn", "Tp"}) :
              k[2] \in ebm_variables(TypeOf(mesh, k[1])) }

Slots == { array_offset(b) : b \in { c \in DOMAIN BCs(mesh) : HasCircuit(mesh, c) } }

SemiconductorNodes ==
  { f \in FvmIds(mesh) : TypeOf(mesh, f) = "SemiconductorRegion" }

\* variant: the candidate temperature without its lower bound
carrier_temperature_unbounded(n0, n1, xT, wT) ==
  (((xT \div n0) * (n0 - Min(n1, 2 * n0))) + wT) \div n0

\* n0, n1: previous and candidate density; xT, wT: previous and candidate
\* density*temperature.  The candidate temperature, not below 90% of ambient
carrier_temperature(n0, n1, xT, wT) ==
  LET T0 == xT \div n0
      T1 == (T0 * (n0 - Min(n1, 2 * n0)) + wT) \div n0
  IN IF 10 * T1 < 9 * T_external THEN (9 * T_external) \div 10 ELSE T1

\* the clamps shared by the post-checks, for variable v of semiconductor
\* node f: o the previous iterate, c the candidate
positive_density(f, v, o, c) ==
  LET floor(a) == IF a < onePerCMC THEN onePerCMC ELSE a
  IN CASE v \in {"n", "p"} -> floor(c[<< f, v >>])
       [] v = "Tl" -> IF c[<< f, v >>] < T_external - 50
                      THEN T_external - 50 ELSE c[<< f, v >>]
       [] v = "Tn" -> carrier_temperature(o[<< f, "n" >>], floor(c[<< f, "n" >>]),
                                          o[<< f, v >>], c[<< f, v >>])
                        * floor(c[<< f, "n" >>])
       [] v = "Tp" -> carrier_temperature(o[<< f, "p" >>], floor(c[<< f, "p" >>]),
                                          o[<< f, v >>], c[<< f, v >>])
                        * floor(c[<< f, "p" >>])
       [] OTHER -> c[<< f, v >>]

\* variant: the direction is cut back together with the candidate
EBM3_positive_density_damping_cut_y(x0, y0, w0) ==
  [ y |-> [ k \in DOMAIN y0 |->
              IF k[2] = "psi" /\ k[1] \in SemiconductorNodes /\ Abs(y0[k]) > Volt
              THEN sign(y0[k]) * Volt ELSE y0[k] ],
    w |-> [ k \in DOMAIN w0 |->
              IF k[1] \notin SemiconductorNodes THEN w0[k]
              ELSE IF k[2] = "psi"
                   THEN IF Abs(y0[k]) > Volt THEN x0[k] - sign(y0[k]) * Volt
                        ELSE w0[k]
                   ELSE positive_density(k[1], k[2], x0, w0) ],
    changed_y |-> TRUE,
    changed_w |-> TRUE ]

\* EBM3Solver::positive_density_damping(x, y, w, changed_y, changed_w)
EBM3_positive_density_damping(x0, y0, w0) ==
  [ y |-> y0,
    w |-> [ k \in DOMAIN w0 |->
              IF k[1] \notin SemiconductorNodes THEN w0[k]
              ELSE IF k[2] = "psi"
                   THEN IF Abs(y0[k]) > Volt THEN x0[k] - sign(y0[k]) * Volt
                        ELSE w0[k]
                   ELSE positive_density(k[1], k[2], x0, w0) ],
    changed_y |-> FALSE,
    changed_w |-> TRUE ]

\* EBM3Solver::projection_positive_density_check(x, xo): the projected x
EBM3_projection_positive_density_check(x0, xo) ==
  [ k \in DOMAIN x0 |->
      IF k[1] \notin SemiconductorNodes THEN x0[k]
      ELSE positive_density(k[1], k[2], xo, x0) ]

\* EBM3Solver::bank_rose_damping
EBM3_bank_rose_damping(x0, y0, w0) ==
  [ y |-> y0, w |-> w0, changed_y |-> FALSE, changed_w |-> FALSE ]

\* ln(1 + ratio) for a step of ratio thermal voltages, in units of Vut/600 and
\* rounded to a multiple of ratio
log1p(ratio) ==
  CASE ratio = 1 -> 416 [] ratio = 2 -> 660 [] ratio = 3 -> 834 [] ratio = 60 -> 2460

MaxOf(S) == CHOOSE a \in S : \A b \in S : b <= a

\* the largest potential step among the semiconductor nodes rank p owns
local_dV_max(p, y0) ==
  MaxOf({ 0 } \cup { Abs(y0[<< f, "psi" >>]) :
                       f \in { g \in SemiconductorNodes : on_processor(g, p) } })

Parallel_max(v) == MaxOf({ v[p] : p \in Ranks })

\* f * step for the damping factor f = log(1 + dV_max/Vut) / (dV_max/Vut)
damped_step(dV_max, step) == (log1p(dV_max \div Vut) * step) \div dV_max

\* variant: every rank damps with the largest step among its own nodes
EBM3_potential_damping_local_max(x0, y0, w0) ==
  LET dV(k) == IF k \in Slots THEN local_dV_max(n_processors - 1, y0)
               ELSE local_dV_max(processor_id[FvmNodes(mesh)[k[1]].root], y0)
  IN [ y |-> y0,
       w |-> [ k \in DOMAIN w0 |->
                 IF k \in Slots \/ (k[1] \in SemiconductorNodes /\ k[2] = "psi")
                 THEN IF dV(k) > 0 THEN x0[k] - damped_step(dV(k), y0[k]) ELSE w0[k]
                 ELSE IF k[1] \in SemiconductorNodes
                      THEN positive_density(k[1], k[2], x0, w0)
                      ELSE w0[k] ],
       changed_y |-> FALSE,
       changed_w |-> TRUE ]

\* EBM3Solver::potential_damping(x, y, w, changed_y, changed_w)
EBM3_potential_damping(x0, y0, w0) ==
  LET dV_max == Parallel_max([ p \in Ranks |-> local_dV_max(p, y0) ])
  IN [ y |-> y0,
       w |-> [ k \in DOMAIN w0 |->
                 IF k \in Slots \/ (k[1] \in SemiconductorNodes /\ k[2] = "psi")
                 THEN IF dV_max > 0 THEN x0[k] - damped_step(dV_max, y0[k]) ELSE w0[k]
                 ELSE IF k[1] \in SemiconductorNodes
                      THEN positive_density(k[1], k[2], x0, w0)
                      ELSE w0[k] ],
       changed_y |-> FALSE,
       changed_w |-> TRUE ]

\* ------------------------------------------------------------------------
\* Local truncation error estimate.  The norm is kept as the exact fraction
\* num/den of its square.
\* ------------------------------------------------------------------------
dt_last      == 2
dt_last_last == 2
TS_rtol == 1
TS_atol == 1

RECURSIVE ProductOf(_)
ProductOf(S) ==
  IF S = {} THEN 1
  ELSE LET a == CHOOSE a \in S : TRUE IN a * ProductOf(S \ {a})

\* xp: the extrapolation of the accepted solutions x_n, x_n1, x_n2
predictor(TS_type, x_n, x_n1, x_n2) ==
  LET hn == dt  hn1 == dt_last  hn2 == dt_last_last
      D  == hn1 * hn2 * (hn1 + hn2)
      cn  == D + hn * (hn + 2 * hn1 + hn2) * hn2
      cn1 == -(hn * (hn + hn1 + hn2) * (hn1 + hn2))
      cn2 == hn * (hn + hn1) * hn1
  IN [ k \in DOMAIN x_n |->
         IF TS_type = "BDF1"
         THEN ((hn1 + hn) * x_n[k] - hn * x_n1[k]) \div hn1
         ELSE (cn * x_n[k] + cn1 * x_n1[k] + cn2 * x_n2[k]) \div D ]

\* the denominator hn + hn1 (+ hn2) of the error constant
LTE_den(TS_type) ==
  IF TS_type = "BDF1" THEN dt + dt_last ELSE dt + dt_last + dt_last_last

\* variant: the error vector is the scaled solution itself
LTE_vector_no_predictor(x0, xp) == [ k \in DOMAIN x0 |-> dt * x0[k] ]

\* the vector LTE times LTE_den: hn * (x - xp)
LTE_vector(x0, xp) == [ k \in DOMAIN x0 |-> dt * (x0[k] - xp[k]) ]

\* the unknowns whose error is controlled: every variable but the potential
\* of a node of a semiconductor, insulator, electrode or metal region
error_controlled(k) ==
  /\ k \notin Slots
  /\ TypeOf(mesh, k[1]) \in {"SemiconductorRegion", "InsulatorRegion",
                              "ElectrodeRegion", "MetalRegion"}
  /\ k[2] # "psi"

\* the entries the loops leave in LTE: potentials and electrode slots are
\* set to zero, the others are weighted by eps_r*x + eps_a
LTE_weight(x0, k) == TS_rtol * x0[k] + TS_atol

local_N(p) ==
  SumOver([ f \in FvmIds(mesh) |->
              IF TypeOf(mesh, f) = "VacuumRegion" THEN 0
              ELSE Cardinality(ebm_variables(TypeOf(mesh, f))) - 1 ],
          { f \in FvmIds(mesh) : on_processor(f, p) })

Parallel_sum(v) == SumOver(v, Ranks)

\* EBM3Solver::LTE_norm(): the square of the returned value
EBM3_LTE_norm(TS_type, x0, x_n, x_n1, x_n2) ==
  LET xp == predictor(TS_type, x_n, x_n1, x_n2)
      ll == LTE_vector(x0, xp)
      kept == { k \in DOMAIN x0 :
                  \/ error_controlled(k)
                  \/ k \notin Slots /\ TypeOf(mesh, k[1]) = "VacuumRegion" }
      wt(k) == IF error_controlled(k) THEN LTE_weight(x0, k) ELSE 1
      W  == ProductOf({ wt(k) : k \in kept })
      sq == [ k \in kept |-> (ll[k] * (W \div wt(k))) * (ll[k] * (W \div wt(k))) ]
      N  == Parallel_sum([ p \in Ranks |-> local_N(p) ])
  IN [ x |-> x0, xp |-> xp, N |-> N,
       r |-> IF N > 0
             THEN [ num |-> SumOver(sq, kept),
                    den |-> LTE_den(TS_type) * LTE_den(TS_type) * W * W * N ]
             ELSE [ num |-> 1, den |-> 1 ] ]

\* the nonlinear solver takes a trial step y on one unknown (a potential, an
\* electron density or an electrode potential) and passes the candidate
\* w = x - y through the damping before it becomes the next iterate
StepSizes == { -7, 7 }
StepRows ==
  { global_offset(f) : f \in FvmIds(mesh) }
    \cup { global_offset(f) + 1 : f \in { g \in FvmIds(mesh) :
                                            TypeOf(mesh, g) = "SemiconductorRegion" } }
    \cup { bc_global_offset(b) : b \in { c \in DOMAIN BCs(mesh) : HasCircuit(mesh, c) } }
NewtonStep ==
  /\ solve = "iterating"
  /\ mode = "none"
  /\ last_call = "build_petsc_sens_jacobian"
  /\ iter < MaxIter
  /\ \E row \in StepRows, d \in StepSizes :
       LET yy == [ i \in DOMAIN x |-> IF i = row THEN d ELSE 0 ]
           ww == [ i \in DOMAIN x |-> x[i] - yy[i] ]
       IN x' = positive_density_damping(x, yy, ww)
  /\ iter' = iter + 1
  /\ last_call' = "snes_step"
  /\ UNCHANGED << setup, stencil_vars, damping_vars, pattern_vars, n_solve, collective_vars, ext_circuit, node_data, Ld, lx, r, J, stash, Jstash, scaled,
                  surgery, current_buffer, jac_buffer, jacobian_matrix_first_assemble,
                  pc, mode, hist, solve >>

\* EBM3Solver::flush_system: scatter, then the regions' Update_Solution
flush_system ==
  /\ solve = "iterating"
  /\ mode = "none"
  /\ last_call = "build_petsc_sens_residual"
  /\ iter > 0
  /\ lx' = [ p \in Ranks |-> VecScatter(p, x) ]
  /\ node_data' = [ p \in Ranks |-> Region_Update_Solution(p, VecScatter(p, x)) ]
  /\ last_call' = "flush_system"
  /\ UNCHANGED << setup, stencil_vars, damping_vars, pattern_vars, n_solve, collective_vars, ext_circuit, x, Ld, r, J, stash, Jstash, scaled, surgery,
                  current_buffer, jac_buffer, jacobian_matrix_first_assemble,
                  pc, mode, hist, solve, iter >>

\* variant: the recovery also writes the rejected iterate to the node data
diverged_recovery_update ==
  /\ solve = "iterating"
  /\ mode = "none"
  /\ last_call \in {"build_petsc_sens_residual", "flush_system"}
  /\ iter = MaxIter
  /\ node_data' = [ p \in Ranks |-> Region_Update_Solution(p, VecScatter(p, x)) ]
  /\ x' = Fill_x
  /\ Ld' = Fill_L
  /\ solve' = "diverged"
  /\ last_call' = "diverged_recovery"
  /\ UNCHANGED << setup, stencil_vars, damping_vars, pattern_vars, n_solve, collective_vars, ext_circuit, lx, r, J, stash, Jstash, scaled,
                  surgery, current_buffer, jac_buffer, jacobian_matrix_first_assemble,
                  pc, mode, hist, iter >>

\* EBM3Solver::diverged_recovery: reload x and L from the node data, once the
\* last trial step is rejected (after its residual, flushed or not)
diverged_recovery ==
  /\ solve = "iterating"
  /\ mode = "none"
  /\ last_call \in {"build_petsc_sens_residual", "flush_system"}
  /\ iter = MaxIter
  /\ x' = Fill_x
  /\ Ld' = Fill_L
  /\ solve' = "diverged"
  /\ last_call' = "diverged_recovery"
  /\ UNCHANGED << setup, stencil_vars, damping_vars, pattern_vars, n_solve, collective_vars, ext_circuit, node_data, lx, r, J, stash, Jstash, scaled,
                  surgery, current_buffer, jac_buffer, jacobian_matrix_first_assemble,
                  pc, mode, hist, iter >>

\* EBM3Solver::post_solve_process: scatter, then the regions' and the
\* boundary conditions' Update_Solution
post_solve_process ==
  /\ solve = "iterating"
  /\ mode = "none"
  /\ last_call \in {"build_petsc_sens_residual", "flush_system"}
  /\ lx' = [ p \in Ranks |-> VecScatter(p, x) ]
  /\ node_data' = [ p \in Ranks |-> Region_Update_Solution(p, VecScatter(p, x)) ]
  /\ ext_circuit' =
       IF \E b \in DOMAIN BCs(mesh) : HasCircuit(mesh, b)
       THEN [ p \in Ranks |->
                Circuit_update(ext_circuit[p],
                  SumOver([ q \in Ranks |-> ext_circuit[q].current_itering ], Ranks)) ]
       ELSE ext_circuit
  /\ solve' = "finished"
  /\ last_call' = "post_solve_process"
  /\ UNCHANGED << setup, stencil_vars, damping_vars, pattern_vars, n_solve, collective_vars, x, Ld, r, J, stash, Jstash, scaled, surgery,
                  current_buffer, jac_buffer, jacobian_matrix_first_assemble,
                  pc, mode, hist, iter >>

Next ==
  \/ pre_solve_process
  \/ BeginResidual
  \/ BeginJacobian
  \/ \E p \in Ranks : Scatter(p)
  \/ \E p \in Ranks : RegionAssemble(p)
  \/ AssembleRegion
  \/ \E p \in Ranks : BoundaryPreprocess(p)
  \/ \E p \in Ranks : RowSurgery(p)
  \/ \E p \in Ranks : BoundaryAssemble(p)
  \/ AssembleBoundary
  \/ \E p \in Ranks : Scale(p)
  \/ EndEvaluation
  \/ NewtonStep
  \/ flush_system
  \/ diverged_recovery
  \/ post_solve_process

Spec == Init /\ [][Next]_vars

\* ------------------------------------------------------------------------
\* The post-check and error-estimate calls on their own: the line search
\* hands over the previous iterate x, the step y and the candidate w = x - y
\* ------------------------------------------------------------------------
MaxApplied == 2

\* which temperature equations the advanced model enables
Models ==
  { [ Tl |-> FALSE, Tn |-> FALSE, Tp |-> FALSE ],
    [ Tl |-> TRUE,  Tn |-> FALSE, Tp |-> FALSE ],
    [ Tl |-> TRUE,  Tn |-> TRUE,  Tp |-> TRUE ] }

\* trial steps of one node: none; a small step that raises the electron
\* density and energy; a step beyond one volt that drives densities and
\* temperatures below their bounds
Profiles ==
  { [ psi |-> 0, n |-> 0, p |-> 0, Tl |-> 0, Tn |-> 0, Tp |-> 0 ],
    [ psi |-> -1200, n |-> -2, p |-> 0, Tl |-> 0, Tn |-> -1200, Tp |-> 0 ],
    [ psi |-> 36000, n |-> 3, p |-> 3, Tl |-> 100, Tn |-> 400, Tp |-> 400 ] }

previous_iterate ==
  [ k \in Unknowns \cup Slots |->
      CASE k \in Slots -> 0
        [] k[2] = "psi" -> 0
        [] k[2] \in {"n", "p"} -> 2
        [] k[2] = "Tl" -> T_external
        [] OTHER -> 2 * T_external ]

trial_step(a, b, s) ==
  [ k \in Unknowns \cup Slots |->
      IF k \in Slots THEN s
      ELSE IF FvmNodes(mesh)[k[1]].root % 2 = 1 THEN a[k[2]] ELSE b[k[2]] ]

DampInit ==
  /\ create_solver(DampingMeshNames, "line_search")
  /\ inter_connect = FALSE
  /\ z_width = 1
  /\ ~TimeDependent
  /\ ext_circuit[0] = Circuit("voltage", 0, 0, 0)
  /\ enable_T \in Models
  /\ snes_x = previous_iterate
  /\ \E a \in Profiles, b \in Profiles, s \in {0, Vut} :
        /\ (Slots = {}) => s = 0
        /\ snes_y = trial_step(a, b, s)
  /\ snes_w = [ k \in DOMAIN snes_x |-> snes_x[k] - snes_y[k] ]
  /\ changed_y = FALSE
  /\ changed_w = FALSE
  /\ applied = << >>
  /\ LTE = no_LTE
  /\ no_boundary_node
  /\ no_stencil

\* one call of a post-check function by every rank
PostCheck(name, res, ops) ==
  /\ solve = "line_search"
  /\ Len(applied) < MaxApplied
  /\ snes_y' = res.y
  /\ snes_w' = res.w
  /\ changed_y' = res.changed_y
  /\ changed_w' = res.changed_w
  /\ applied' = Append(applied, name)
  /\ collectives' = [ p \in Ranks |-> collectives[p] \o ops ]
  /\ UNCHANGED << setup, stencil_vars, enable_T, snes_x, LTE, solver_vars >>

PotentialDamping ==
  /\ applied = << >>
  /\ PostCheck("potential_damping",
               EBM3_potential_damping(snes_x, snes_y, snes_w), << "Parallel::max" >>)

BankRoseDamping ==
  /\ applied = << >>
  /\ PostCheck("bank_rose_damping",
               EBM3_bank_rose_damping(snes_x, snes_y, snes_w), << >>)

PositiveDensityDamping ==
  /\ Range(applied) \subseteq {"positive_density_damping",
                                "projection_positive_density_check"}
  /\ PostCheck("positive_density_damping",
               EBM3_positive_density_damping(snes_x, snes_y, snes_w), << >>)

\* the projection is handed the candidate and the previous iterate
ProjectionCheck ==
  /\ Range(applied) \subseteq {"positive_density_damping",
                                "projection_positive_density_check"}
  /\ PostCheck("projection_positive_density_check",
               [ y |-> snes_y,
                 w |-> EBM3_projection_positive_density_check(snes_w, snes_x),
                 changed_y |-> changed_y, changed_w |-> changed_w ], << >>)

\* the error estimate of a time step whose history is x_n, x_n1, x_n2, taken
\* when no trial step is pending; the corrector is the predictor, or differs
\* from it in one unknown
LTE_estimate ==
  /\ solve = "line_search"
  /\ applied = << >>
  /\ \A k \in DOMAIN snes_y : snes_y[k] = 0
  /\ \E TS_type \in {"BDF1", "BDF2"}, c \in {0, 1},
        bend \in (Unknowns \cup Slots \cup {<< 0, "none" >>}) :
        LET x_n  == [ k \in Unknowns \cup Slots |-> 2 ]
            x_n1 == [ k \in Unknowns \cup Slots |-> 1 ]
            x_n2 == [ k \in Unknowns \cup Slots |-> c ]
            xp   == predictor(TS_type, x_n, x_n1, x_n2)
            x0   == [ k \in Unknowns \cup Slots |->
                        IF k = bend THEN xp[k] + 1 ELSE xp[k] ]
        IN LTE' = EBM3_LTE_norm(TS_type, x0, x_n, x_n1, x_n2)
  /\ applied' = << "LTE_norm" >>
  /\ collectives' = [ p \in Ranks |-> collectives[p] \o << "VecNorm", "Parallel::sum" >> ]
  /\ UNCHANGED << setup, stencil_vars, enable_T, snes_x, snes_y, snes_w, changed_y, changed_w,
                  solver_vars >>

DampNext ==
  \/ PotentialDamping
  \/ BankRoseDamping
  \/ PositiveDensityDamping
  \/ ProjectionCheck
  \/ LTE_estimate

DampSpec == DampInit /\ [][DampNext]_vars


\* ------------------------------------------------------------------------
\* Properties
\* ------------------------------------------------------------------------
\* the residual that the region pass of the current iterate leaves after
\* its assembly: every rank's region and time-derivative values, added
RegionPass(p) ==
  VecSetValuesAdd(ZeroVec(Rows(mesh)),
                  Region_Function(p, VecScatter(p, x))
                    \o Time_Dependent_Function(p, VecScatter(p, x)))
original ==
  [ row \in Rows(mesh) |-> SumOver([ p \in Ranks |-> RegionPass(p)[row] ], Ranks) ]

\* rank p has applied its row surgery to r and no boundary equation has
\* been assembled into r yet
SurgeryDone(p) ==
  mode = "residual" /\ pc[p] \in {"BoundaryAssemble", "WaitBoundary"}

\* C1 (as stated): after the row surgery on the residual, for every triple
\* result[dst] = original[dst] + original[src] and result[src] = 0.
C1_PerTripleSum ==
  \A p \in Ranks :
    SurgeryDone(p) =>
      LET o == original
      IN \A k \in DOMAIN surgery[p].src_row :
           /\ r[surgery[p].src_row[k]] = 0
           /\ r[surgery[p].dst_row[k]] =
                o[surgery[p].dst_row[k]] + o[surgery[p].src_row[k]]

\* C1 (amended): after the row surgery on the residual, every source row is
\* zero and every destination row that is not itself cleared holds its
\* original value plus the original values of all source rows merged into it.
C1_RowSurgerySoundness ==
  \A p \in Ranks :
    SurgeryDone(p) =>
      LET o == original
      IN \A k \in DOMAIN surgery[p].src_row :
           LET dst == surgery[p].dst_row[k]
           IN /\ r[surgery[p].src_row[k]] = 0
              /\ dst \notin Range(surgery[p].clear_row) =>
                   r[dst] = o[dst]
                              + SumOver([ j \in DOMAIN surgery[p].src_row |->
                                            o[surgery[p].src_row[j]] ],
                                        { j \in DOMAIN surgery[p].src_row :
                                            surgery[p].dst_row[j] = dst })

\* two triples with non-zero source rows have been merged into one row
C1_Witness ==
  \E p \in Ranks :
    /\ SurgeryDone(p)
    /\ LET o == original
       IN \E k, j \in DOMAIN surgery[p].src_row :
            /\ k # j
            /\ surgery[p].dst_row[k] = surgery[p].dst_row[j]
            /\ o[surgery[p].src_row[k]] # 0
            /\ o[surgery[p].src_row[j]] # 0
            /\ r[surgery[p].dst_row[k]] # o[surgery[p].dst_row[k]]

\* C2: every residual and every Jacobian evaluation runs, on every rank, the
\* phases Scatter, RegionAssemble, BoundaryPreprocess, RowSurgery,
\* BoundaryAssemble, Scale in this order, none skipped or repeated; a rank
\* applies its row surgery only when the region values of all ranks are
\* assembled and before any boundary equation is assembled.
C2_PhaseOrder ==
  /\ \A p \in Ranks :
       /\ Len(hist[p]) <= Len(Phases)
       /\ hist[p] = SubSeq(Phases, 1, Len(hist[p]))
       /\ pc[p] = "Done" => hist[p] = Phases
       /\ pc[p] = "RowSurgery" =>
            /\ hist[p] = SubSeq(Phases, 1, 3)
            /\ \A q \in Ranks :
                 pc[q] \in {"BoundaryPreprocess", "RowSurgery",
                            "BoundaryAssemble", "WaitBoundary"}
  /\ (mode = "none" /\ last_call \in {"build_petsc_sens_residual",
                                      "build_petsc_sens_jacobian"})
       => \A p \in Ranks : hist[p] = Phases

\* a residual and a Jacobian evaluation have both completed on two ranks
C2_Witness ==
  /\ n_processors = 2
  /\ mode = "none"
  /\ last_call = "build_petsc_sens_jacobian"
  /\ \A p \in Ranks : hist[p] = Phases

\* the boundary equations of a residual evaluation are assembled into r
ResidualAssembled ==
  mode = "residual" /\ \A p \in Ranks : pc[p] \in {"Scale", "Done"}

\* the (reference, other) FVM node pairs of the homogeneous interface nodes
\* at which exactly two regions coincide
InterfaceNodes ==
  UNION { Range(bc_nodes(b)) :
            b \in { c \in DOMAIN BCs(mesh) : BCs(mesh)[c].type = "HomoInterface" } }
TwoRegionPairs ==
  { fn \in { region_nodes(n) : n \in InterfaceNodes } : Len(fn) = 2 }

\* the unknowns of the two FVM nodes of a pair are equal
EqualUnknowns(fn) ==
  \A v \in 0..2 : x[global_offset(fn[2]) + v] = x[global_offset(fn[1]) + v]

\* C3 (as stated): at a two-region homogeneous interface the residual rows
\* of the reference region are zero when both regions' unknowns are equal.
C3_ReferenceRowZero ==
  ResidualAssembled =>
    \A fn \in TwoRegionPairs :
      EqualUnknowns(fn) => \A v \in 0..2 : r[global_offset(fn[1]) + v] = 0

\* C3 (amended): at a two-region homogeneous interface the residual rows of
\* the non-reference region (the rows that hold the equality equations) are
\* zero when both regions' unknowns are equal.
C3_BoundaryEquality ==
  ResidualAssembled =>
    \A fn \in TwoRegionPairs :
      EqualUnknowns(fn) => \A v \in 0..2 : r[global_offset(fn[2]) + v] = 0

\* a residual is assembled at equal unknowns of a two-region interface node
C3_Witness ==
  /\ ResidualAssembled
  /\ \E fn \in TwoRegionPairs :
       /\ EqualUnknowns(fn)
       /\ x[global_offset(fn[1])] # 0

\* the two-region scenario: the reference (region-0) node and the region-1
\* node of the interface node of mesh iface2, potentials in tenths of a volt
Scenario_ref   == global_offset(region_nodes(2)[1])
Scenario_other == global_offset(region_nodes(2)[2])

\* C4 (as stated): with region-0 potential 1.0 and region-1 potential 0.3
\* the residual at the coupling row is 1.0 - 0.3 = 0.7, and 0.0 when the
\* potentials are equal.
C4_RefMinusOther ==
  (ResidualAssembled /\ mesh = "iface2") =>
    /\ (x[Scenario_ref] = 10 /\ x[Scenario_other] = 3) => r[Scenario_other] = 7
    /\ x[Scenario_ref] = x[Scenario_other] => r[Scenario_other] = 0

\* C4 (amended): with region-0 potential 1.0 and region-1 potential 0.3 the
\* residual at the coupling row is 0.3 - 1.0 = -0.7 (region-1 potential
\* minus region-0 potential), and 0.0 when the potentials are equal.
C4_PotentialContinuity ==
  (ResidualAssembled /\ mesh = "iface2") =>
    /\ (x[Scenario_ref] = 10 /\ x[Scenario_other] = 3) => r[Scenario_other] = -7
    /\ x[Scenario_ref] = x[Scenario_other] => r[Scenario_other] = 0

\* the residual of the scenario is assembled at potentials 1.0 and 0.3
C4_Witness ==
  /\ ResidualAssembled
  /\ mesh = "iface2"
  /\ x[Scenario_ref] = 10
  /\ x[Scenario_other] = 3
  /\ r[Scenario_other] = -7

\* the edge-wise flux values that rank p adds in the region pass: the
\* conduction flux of the metal regions, the Poisson flux and the electron
\* and hole currents of the semiconductor regions
FluxBuffer(p) ==
  ForEach([ rg \in DOMAIN RegionTypes(mesh) |->
              IF RegionTypes(mesh)[rg] = "MetalRegion"
              THEN Metal_DDM1_Function(p, rg, lx[p])
              ELSE Semiconductor_PoissonFlux(p, rg, lx[p])
                     \o Semiconductor_CellFlux(p, rg, lx[p]) ],
          DOMAIN RegionTypes(mesh))
FluxSum(p) ==
  LET buf == FluxBuffer(p) IN SumOver([ i \in DOMAIN buf |-> buf[i][2] ], DOMAIN buf)

\* the flux from the second to the first end of edge i of a metal mesh
MetalEdgeFlux(i) ==
  (Conductance * Edges(mesh)[i].area
     * (x[global_offset(Edges(mesh)[i].second)] - x[global_offset(Edges(mesh)[i].first)]))
    \div Edges(mesh)[i].dist

\* every rank has run its region pass; its values wait for the assembly
RegionPassDone ==
  mode = "residual" /\ \A p \in Ranks : pc[p] = "WaitRegion"

\* C5: the edge-wise flux contributions of the region pass sum to zero over
\* all rows and all ranks; on a metal mesh (2-node edge, 4-node loop) every
\* row receives, once, the flux of each edge it ends, with opposite signs at
\* the two ends, wherever the ends are owned.
C5_Conservation ==
  RegionPassDone =>
    /\ SumOver([ p \in Ranks |-> FluxSum(p) ], Ranks) = 0
    /\ mesh \in {"metal2", "metal4"} =>
         /\ SumOver([ row \in Rows(mesh) |->
                        SumOver([ p \in Ranks |-> stash[p][row] ], Ranks) ],
                    Rows(mesh)) = 0
         /\ \A f \in FvmIds(mesh) :
              SumOver([ p \in Ranks |-> stash[p][global_offset(f)] ], Ranks)
                = SumOver([ i \in DOMAIN Edges(mesh) |-> MetalEdgeFlux(i) ],
                          { i \in DOMAIN Edges(mesh) : Edges(mesh)[i].first = f })
                  - SumOver([ i \in DOMAIN Edges(mesh) |-> MetalEdgeFlux(i) ],
                            { i \in DOMAIN Edges(mesh) : Edges(mesh)[i].second = f })

\* the region pass of the 4-node loop has run on two ranks, with an edge
\* whose ends are owned by different ranks and carry a non-zero flux
C5_Witness ==
  /\ RegionPassDone
  /\ mesh = "metal4"
  /\ n_processors = 2
  /\ \E i \in DOMAIN Edges(mesh) :
       /\ ~on_processor(Edges(mesh)[i].first, processor_id[FvmNodes(mesh)[Edges(mesh)[i].second].root])
       /\ MetalEdgeFlux(i) # 0
       /\ stash[0][global_offset(Edges(mesh)[i].first)]
            + stash[1][global_offset(Edges(mesh)[i].first)] # 0

\* the electrode of mesh ohmic, its row and its circuit
Electrode == CHOOSE b \in DOMAIN BCs(mesh) : HasCircuit(mesh, b)
ElectrodeRow == bc_global_offset(Electrode)
ElectrodeCircuit == ext_circuit[n_processors - 1]

\* the net current crossing the electrode at the current iterate: the
\* conduction current left by the region pass in the continuity rows of the
\* contact nodes plus the displacement current through their faces
ElectrodeCurrent ==
  LET o == original
      contact == { region_nodes(n)[1] : n \in Range(bc_nodes(Electrode)) }
      psi(f) == node_data[processor_id[FvmNodes(mesh)[f].root]][f].psi
      disp(f) ==
        SumOver([ nb \in Neighbors(mesh, f) |->
                  LET ed == Edges(mesh)[EdgeBetween(mesh, f, nb)]
                  IN (ed.area * NodeEps(f) *
                        ((x[global_offset(f)] - x[global_offset(nb)]) - (psi(f) - psi(nb))))
                       \div (ed.dist * dt) ],
                Neighbors(mesh, f))
  IN z_width *
       SumOver([ f \in contact |->
                   (o[global_offset(f) + 1] - o[global_offset(f) + 2])
                     + (IF TimeDependent THEN disp(f) ELSE 0) ],
               contact)

\* C6: the residual assembled at the row of a voltage-driven electrode is
\* (L/dt+R)*I + V - Vapp + (L/dt+R)(C/dt)(V - V_prev) - (L/dt)(I_prev + I_cap_prev)
\* before scaling, I the net current over all ranks, for any number of ranks.
C6_VoltageDrivenRow ==
  (ResidualAssembled /\ mesh = "ohmic" /\ ElectrodeCircuit.driven = "voltage") =>
    LET c == ElectrodeCircuit
        L_dt == c.L \div dt
        V == x[ElectrodeRow]
    IN r[ElectrodeRow] =
         (L_dt + c.R) * ElectrodeCurrent + V - c.Vapp
           + (((L_dt + c.R) * c.C) \div dt) * (V - c.potential)
           - L_dt * (c.current + c.cap_current)

\* the row is assembled from the currents of two ranks that each own a
\* contact node, with R, L and C present and V away from V_prev
C6_Witness ==
  /\ ResidualAssembled
  /\ mesh = "ohmic"
  /\ ElectrodeCircuit.driven = "voltage"
  /\ ElectrodeCircuit.R > 0
  /\ n_processors = 2
  /\ processor_id[1] # processor_id[3]
  /\ TimeDependent
  /\ x[ElectrodeRow] # ElectrodeCircuit.potential
  /\ \A p \in Ranks : SumSeq(current_buffer[p][Electrode]) # 0

\* C7 (as stated): the equation at the row of a current-driven electrode is
\* I_cap - I_app.
C7_CapMinusApp ==
  (ResidualAssembled /\ mesh = "ohmic" /\ ElectrodeCircuit.driven = "current") =>
    r[ElectrodeRow] = ElectrodeCircuit.cap_current - ElectrodeCircuit.Iapp

\* C7 (amended): the equation at the row of a current-driven electrode is
\* I + I_cap - I_app, I the net current crossing the boundary over all ranks.
C7_CurrentDrivenRow ==
  (ResidualAssembled /\ mesh = "ohmic" /\ ElectrodeCircuit.driven = "current") =>
    r[ElectrodeRow] =
      ElectrodeCurrent + ElectrodeCircuit.cap_current - ElectrodeCircuit.Iapp

\* the row of a current-driven electrode is assembled with a non-zero
\* electrode current gathered on two ranks
C7_Witness ==
  /\ ResidualAssembled
  /\ mesh = "ohmic"
  /\ ElectrodeCircuit.driven = "current"
  /\ n_processors = 2
  /\ processor_id[1] # processor_id[3]
  /\ z_width = 2
  /\ ElectrodeCurrent # 0

\* a voltage-driven electrode with R = L = C = 0 and Vapp = 5 V
ScenarioRLC0 ==
  /\ mesh = "ohmic"
  /\ ElectrodeCircuit.driven = "voltage"
  /\ ElectrodeCircuit.R = 0 /\ ElectrodeCircuit.L = 0 /\ ElectrodeCircuit.C = 0
  /\ ElectrodeCircuit.Vapp = 50

\* the Jacobian evaluation has scaled every row and returns
JacobianReturned ==
  mode = "jacobian" /\ \A p \in Ranks : pc[p] = "Done"

\* C8 (as stated): in the scenario the Jacobian row of the electrode has a
\* single non-zero entry, 1.0, on the diagonal (the returned row is the
\* assembled row times L, L = 1/Ld).
C8_UnitDiagonal ==
  (JacobianReturned /\ ScenarioRLC0) =>
    /\ ElectrodeRow \in scaled.J
    /\ J[<< ElectrodeRow, ElectrodeRow >>] = 1 * Ld[ElectrodeRow]
    /\ \A col \in Rows(mesh) \ { ElectrodeRow } : J[<< ElectrodeRow, col >>] = 0

\* C8 (amended): in the scenario the circuit equation is Ve - 5 = 0 and the
\* Jacobian row of the electrode, as assembled, has a single non-zero
\* entry, 1.0, on the diagonal; the row handed back is scaled by
\* L = 1/z_width, so its diagonal is 1.0 only where z_width is 1.
C8_ElectrodeScenario ==
  /\ (ResidualAssembled /\ ScenarioRLC0) => r[ElectrodeRow] = x[ElectrodeRow] - 50
  /\ (JacobianReturned /\ ScenarioRLC0) =>
       /\ ElectrodeRow \in scaled.J
       /\ J[<< ElectrodeRow, ElectrodeRow >>] = 1
       /\ Ld[ElectrodeRow] = z_width
       /\ \A col \in Rows(mesh) \ { ElectrodeRow } : J[<< ElectrodeRow, col >>] = 0

\* the Jacobian of the scenario is returned on a mesh whose z_width is not 1,
\* with a non-zero current derivative in the preprocess buffer's rows
C8_Witness ==
  /\ JacobianReturned
  /\ ScenarioRLC0
  /\ z_width = 2
  /\ J[<< ElectrodeRow, ElectrodeRow >>] = 1
  /\ \E p \in Ranks : jac_buffer[p][Electrode] # << >>

\* C9 (as stated): between two accepted steps no residual or Jacobian
\* evaluation, damping, projection, intermediate flush or diverged recovery
\* changes FVM_NodeData: only post_solve_process does.
C9_OnlyAcceptedStep ==
  [][ node_data' # node_data => last_call' = "post_solve_process" ]_vars

\* C9 (amended): between two accepted steps no residual or Jacobian
\* evaluation, damping, projection or diverged recovery changes
\* FVM_NodeData; an intermediate flush (flush_system) does write the
\* current iterate into it, as post_solve_process does.
C9_UpdateState ==
  [][ node_data' # node_data =>
        last_call' \in {"post_solve_process", "flush_system"} ]_vars

\* an intermediate flush has written a damped trial iterate to the node data
C9_Witness ==
  /\ last_call = "flush_system"
  /\ solve = "iterating"
  /\ iter > 0
  /\ \E p \in Ranks, f \in FvmIds(mesh) : node_data[p][f].psi # node_data[p][f].psi_last

\* C10 (as stated): a rank changes the FVM_NodeData only of nodes it owns.
C10_OwnerOnly ==
  [][ \A p \in Ranks, f \in FvmIds(mesh) :
        node_data'[p][f] # node_data[p][f] => on_processor(f, p) ]_vars

\* C10 (amended): a rank writes only its own copy of the FVM_NodeData of the
\* nodes local to it, the nodes it owns and its ghost nodes, never a node
\* that is not local to it; the copy of a ghost node receives the values of
\* the owning rank's copy.
C10_LocalCopiesOnly ==
  [][ \A p \in Ranks, f \in FvmIds(mesh) :
        /\ node_data'[p][f] # node_data[p][f] => on_local(f, p)
        /\ on_local(f, p) =>
             node_data'[p][f] = node_data'[processor_id[FvmNodes(mesh)[f].root]][f] ]_vars

\* an update has changed a rank's copy of a ghost node while a node that is
\* not local to the rank exists
C10_Witness ==
  /\ last_call \in {"flush_system", "post_solve_process"}
  /\ \E p \in Ranks, f, g \in FvmIds(mesh) :
       /\ on_local(f, p) /\ ~on_processor(f, p)
       /\ node_data[p][f].psi # node_data[p][f].psi_last
       /\ ~on_local(g, p)

\* ------------------------------------------------------------------------
\* C11: accumulation is by the owner.  Whatever a rank has added to the
\* residual or to the Jacobian and not yet assembled lies in rows of nodes
\* the rank owns (or in an electrode slot), never in a row of a ghost node,
\* and the rows its row surgery touches are rows of nodes it owns.
\* ------------------------------------------------------------------------
GhostRows(p) ==
  { row \in Rows(mesh) : IsNodeRow(row) /\ RowOwner(row) # p
                           /\ on_local(RowNode(row), p) }

C11_OwnerAccumulates ==
  \A p \in Ranks : \A row \in Rows(mesh) :
    (IsNodeRow(row) /\ RowOwner(row) # p) =>
      /\ stash[p][row] = 0
      /\ \A col \in Rows(mesh) : Jstash[p][<< row, col >>] = 0
      /\ row \notin Range(surgery[p].src_row)
      /\ row \notin Range(surgery[p].dst_row)
      /\ row \notin Range(surgery[p].clear_row)

\* a rank with a ghost node has added its region values, and another rank
\* has emitted row-surgery triples
C11_Witness ==
  /\ \E p \in Ranks : /\ GhostRows(p) # {}
                       /\ \E row \in Rows(mesh) : stash[p][row] # 0
  /\ \E p \in Ranks : /\ GhostRows(p) # {}
                       /\ surgery[p].src_row # << >>

\* ------------------------------------------------------------------------
\* C12: every collective operation (scatter, assembly, global max, norm and
\* sum) of a residual or Jacobian evaluation, of a damping call and of an LTE
\* evaluation is reached by every rank, the same number of times and in the
\* same order, whatever the distribution of the nodes: the ranks' sequences
\* of collectives never diverge, and two ranks at the same point of the
\* evaluation have gone through the same sequence.
\* ------------------------------------------------------------------------
AllSpec == (Init \/ DampInit) /\ [][Next \/ DampNext]_vars

IsPrefix(s, t) == Len(s) <= Len(t) /\ SubSeq(t, 1, Len(s)) = s

\* the ranks that own no node of some region, or no node of some boundary
IdleSomewhere ==
  { p \in Ranks :
      \/ \E n \in DOMAIN RegionTypes(mesh) :
            \A f \in FvmIds(mesh) : RegionOf(mesh, f) = n => ~on_processor(f, p)
      \/ \E b \in DOMAIN BCs(mesh) : Range(BCs(mesh)[b].nodes) # {} /\
            \A f \in FvmIds(mesh) :
              FvmNodes(mesh)[f].root \in Range(BCs(mesh)[b].nodes) => ~on_processor(f, p) }

C12_SameCollectives ==
  \A p \in Ranks, q \in Ranks :
    /\ IsPrefix(collectives[p], collectives[q]) \/ IsPrefix(collectives[q], collectives[p])
    /\ pc[p] = pc[q] => collectives[p] = collectives[q]

\* a rank that owns no node of a region has gone, with the others, through
\* the scatter, both assemblies and the boundary loop of an evaluation
C12_Witness ==
  /\ n_processors > 1
  /\ IdleSomewhere # {}
  /\ \A p \in Ranks : /\ pc[p] = "Scale"
                        /\ Len(collectives[p]) >= 3
                        /\ collectives[p][1] = "VecScatter"

\* ------------------------------------------------------------------------
\* C13: the positive-density projection is idempotent.  A further application
\* of the same function (positive_density_damping or
\* projection_positive_density_check, with the same previous iterate, on the
\* output of the application before) leaves the candidate point as it was.
\* ------------------------------------------------------------------------
PositivityChecks == {"positive_density_damping", "projection_positive_density_check"}

C13_Idempotent ==
  [][ ( /\ applied # << >>
        /\ Head(applied) \in PositivityChecks
        /\ applied' = Append(applied, Head(applied))
        /\ Range(applied) = { Head(applied) } )
      => snes_w' = snes_w ]_vars

\* the part of C13 the code keeps: potentials, densities and the lattice
\* temperature are left alone by a second application
C13_IdempotentButCarrierT ==
  [][ ( /\ applied # << >>
        /\ Head(applied) \in PositivityChecks
        /\ applied' = Append(applied, Head(applied))
        /\ Range(applied) = { Head(applied) } )
      => \A k \in DOMAIN snes_w :
           k[2] \notin {"Tn", "Tp"} => snes_w'[k] = snes_w[k] ]_vars

\* ------------------------------------------------------------------------
\* C14: damping and projection never change the search direction.  Every
\* call of potential_damping, positive_density_damping, bank_rose_damping or
\* of the projection leaves the Newton direction y as it was, and the
\* changed-direction flag is reported false; only the candidate may change.
\* ------------------------------------------------------------------------
C14_DirectionKept ==
  [][ applied' # applied /\ applied'[Len(applied')] # "LTE_norm"
      => /\ snes_y' = snes_y
         /\ changed_y' = FALSE
         /\ snes_x' = snes_x ]_vars

\* a damping call has modified the candidate point of a non-zero step
C14_Witness ==
  /\ applied # << >>
  /\ applied[1] \in {"potential_damping", "positive_density_damping"}
  /\ changed_w
  /\ \E k \in DOMAIN snes_w : snes_y[k] # 0 /\ snes_w[k] # snes_x[k] - snes_y[k]

\* ------------------------------------------------------------------------
\* C15: potential damping applies one factor f = ln(1 + dV_max/Vt) /
\* (dV_max/Vt) to all potential unknowns: after the call, candidate =
\* previous - f * step for every potential unknown of every region and for
\* every electrode slot, with the same f on every rank.
\* ------------------------------------------------------------------------
\* the largest potential step among the semiconductor nodes of all ranks
Global_dV_max ==
  MaxOf({ 0 } \cup { Abs(snes_y[<< f, "psi" >>]) : f \in SemiconductorNodes })

\* f * step; no step is taken at all when f is undefined (dV_max = 0)
Damped(k) ==
  IF Global_dV_max > 0 THEN damped_step(Global_dV_max, snes_y[k]) ELSE snes_y[k]

PotentialUnknowns == { k \in DOMAIN snes_w : k \in Slots \/ k[2] = "psi" }

\* C15 as stated: every potential unknown of every region is damped
C15_AllPotentials ==
  applied = << "potential_damping" >> =>
    \A k \in PotentialUnknowns : snes_w[k] = snes_x[k] - Damped(k)

\* C15, amended: with dV_max the largest potential step over the semiconductor
\* nodes of all ranks, the potential unknowns of the semiconductor regions
\* and the electrode slots hold previous - f * step with that one f whenever
\* dV_max > 0; the potential unknowns of the other regions, and every
\* potential when dV_max = 0, hold previous - step
C15_SemiconductorPotentials ==
  applied = << "potential_damping" >> =>
    \A k \in PotentialUnknowns :
      snes_w[k] = snes_x[k] - (IF k \in Slots \/ k[1] \in SemiconductorNodes
                                THEN Damped(k) ELSE snes_y[k])

\* two ranks own semiconductor nodes with different potential steps, the
\* step of a metal node is not zero, and the candidate has been damped
C15_Witness ==
  /\ applied = << "potential_damping" >>
  /\ \E f \in SemiconductorNodes, g \in SemiconductorNodes :
        /\ processor_id[FvmNodes(mesh)[f].root] # processor_id[FvmNodes(mesh)[g].root]
        /\ Abs(snes_y[<< f, "psi" >>]) < Abs(snes_y[<< g, "psi" >>])
        /\ snes_y[<< f, "psi" >>] # 0
        /\ snes_w[<< f, "psi" >>] # snes_x[<< f, "psi" >>] - snes_y[<< f, "psi" >>]
  /\ \E f \in FvmIds(mesh) \ SemiconductorNodes : snes_y[<< f, "psi" >>] # 0

\* ------------------------------------------------------------------------
\* C16: after a trial step has gone through the positive-density projection
\* (positive_density_damping or projection_positive_density_check), every
\* candidate electron and hole density of every owned semiconductor node is
\* at least the floor, the lattice temperature is not below ambient minus
\* 50 K, and the carrier temperatures (the stored product divided by the
\* density) are not below 90% of ambient.
\* ------------------------------------------------------------------------
C16_Bounds ==
  (applied # << >> /\ applied[Len(applied)] \in PositivityChecks) =>
    \A p \in Ranks : \A f \in { g \in SemiconductorNodes : on_processor(g, p) } :
      /\ snes_w[<< f, "n" >>] >= onePerCMC
      /\ snes_w[<< f, "p" >>] >= onePerCMC
      /\ enable_T.Tl => snes_w[<< f, "Tl" >>] >= T_external - 50
      /\ enable_T.Tn => 10 * snes_w[<< f, "Tn" >>] >= 9 * T_external * snes_w[<< f, "n" >>]
      /\ enable_T.Tp => 10 * snes_w[<< f, "Tp" >>] >= 9 * T_external * snes_w[<< f, "p" >>]

\* the step drove a density, the lattice temperature and a carrier
\* temperature of a node below their bounds, and the projection has acted
C16_Witness ==
  /\ applied # << >>
  /\ applied[Len(applied)] \in PositivityChecks
  /\ enable_T.Tl /\ enable_T.Tn
  /\ \E f \in SemiconductorNodes :
        /\ snes_x[<< f, "n" >>] - snes_y[<< f, "n" >>] < onePerCMC
        /\ snes_x[<< f, "Tl" >>] - snes_y[<< f, "Tl" >>] < T_external - 50
        /\ snes_w[<< f, "n" >>] = onePerCMC
        /\ 10 * snes_w[<< f, "Tn" >>] = 9 * T_external * snes_w[<< f, "n" >>]

Accepted_x(row) ==
  LET f == RowNode(row)
      d == node_data[RowOwner(row)][f]
      v == row - global_offset(f)
  IN IF TypeOf(mesh, f) = "MetalRegion" THEN d.psi_last
     ELSE IF v = 0 THEN d.psi_last ELSE IF v = 1 THEN d.n_last ELSE d.p_last

C18_ReloadsAccepted ==
  last_call = "diverged_recovery" =>
    /\ \A row \in Rows(mesh) :
          x[row] = IF IsNodeRow(row) THEN Accepted_x(row) ELSE Ohmic_Fill_x
    /\ Ld = Fill_L

\* what the recovery does: x and L are a fresh load of the stored data
C18_ReloadsStored ==
  last_call = "diverged_recovery" => x = Fill_x /\ Ld = Fill_L

\* the recovery has run after a flush of a rejected iterate
C18_Witness ==
  /\ last_call = "diverged_recovery"
  /\ \E p \in Ranks, f \in FvmIds(mesh) : node_data[p][f].psi # node_data[p][f].psi_last

ReferenceNode(f) ==
  CHOOSE g \in FvmIds(mesh) :
    /\ FvmNodes(mesh)[g].root = FvmNodes(mesh)[f].root
    /\ \A h \in FvmIds(mesh) : FvmNodes(mesh)[h].root = FvmNodes(mesh)[f].root =>
          \/ TypeRank(TypeOf(mesh, g)) < TypeRank(TypeOf(mesh, h))
          \/ TypeRank(TypeOf(mesh, g)) = TypeRank(TypeOf(mesh, h)) /\ g <= h

BoundaryRows(p, b) ==
  IF mode = "residual"
  THEN LET buf == BC_Function(p, b, lx[p], current_buffer[p][b])
       IN { buf[i][1] : i \in DOMAIN buf }
  ELSE LET buf == BC_Jacobian(p, b, lx[p], jac_buffer[p][b])
       IN { buf[i][1] : i \in DOMAIN buf }

\* the clear rows that the preprocess of boundary b lists on rank p in the
\* current pass
BoundaryClearRows(p, b) ==
  IF mode = "residual"
  THEN Range(BC_Function_Preprocess(p, b, r).clear_row)
  ELSE Range(BC_Jacobian_Preprocess(p, b, J).clear_row)

\* the rows into which the region pass of rank p writes
RegionRows(p) ==
  IF mode = "residual"
  THEN LET buf == Region_Function(p, lx[p]) \o Time_Dependent_Function(p, lx[p])
       IN { buf[i][1] : i \in DOMAIN buf }
  ELSE LET buf == Region_Jacobian(p, lx[p]) \o Time_Dependent_Jacobian(p, lx[p])
       IN { buf[i][1] : i \in DOMAIN buf }

\* rank p has run its preprocess loop and its row surgery in this pass
PreprocessDone(p) ==
  mode # "none" /\ pc[p] \in {"BoundaryAssemble", "WaitBoundary", "Scale", "Done"}

MaxSolves == 1

\* EBM3Solver::pre_solve_process(load_solution = false)
pre_solve_process_next ==
  /\ solve = "finished"
  /\ n_solve < MaxSolves
  /\ n_solve' = n_solve + 1
  /\ solve' = "iterating"
  /\ iter' = 0
  /\ last_call' = "pre_solve_process"
  /\ UNCHANGED << setup, stencil_vars, damping_vars, pattern_vars, collective_vars, ext_circuit,
                  node_data, x, Ld, lx, r, J, stash, Jstash, scaled, surgery,
                  current_buffer, jac_buffer, jacobian_matrix_first_assemble,
                  pc, mode, hist >>

ResolveInit ==
  /\ Init
  /\ mesh \in {"iface2", "ohmic"}
  /\ z_width = 1
  /\ ~TimeDependent
  /\ mesh = "ohmic" => ext_circuit[0] = Circuit("voltage", 1, 2, 4)

ResolveSpec == ResolveInit /\ [][Next \/ pre_solve_process_next]_vars

\* the positions the region loops of all ranks set in a first evaluation
RegionPositions ==
  UNION { Positions(Region_Jacobian(q, lx[q]) \o Time_Dependent_Jacobian(q, lx[q]), FALSE)
          : q \in Ranks }

\* C22: every position written by the row merge or by a boundary's Jacobian
\* assemble, in any Jacobian evaluation, is already in the matrix pattern
\* left by the reservation and the first final assembly.
C22_WritesInsideReservedPattern ==
  \A p \in Ranks :
    (mode = "jacobian" /\ pc[p] \in {"BoundaryAssemble", "WaitBoundary"})
      => nz_stash[p] \subseteq nz_pattern

\* a second evaluation has merged rows and assembled an interface, and both
\* passes wrote positions that only the reservation put into the pattern
C22_Witness ==
  /\ mode = "jacobian"
  /\ n_solve = 1
  /\ \E p \in Ranks :
       /\ pc[p] = "WaitBoundary"
       /\ n_reserve[p] = 1
       /\ \E pos \in nz_stash[p] \ RegionPositions :
            pos \in MergePositions(J, nz_pattern, surgery[p].src_row,
                                   surgery[p].dst_row, FALSE)
       /\ \E b \in DOMAIN BCs(mesh) :
            (Positions(BC_Jacobian(p, b, lx[p], jac_buffer[p][b]), TRUE)
               \cap nz_stash[p]) \ RegionPositions # {}

\* C28: over the Jacobian evaluations of one solver instance the boundary
\* reserve loop runs in the first evaluation and in no later one; the
\* first-assemble flag goes from false to true once, when a rank ends its
\* first evaluation, and never back; the ignore-zero-entries option is set
\* only once the reserved entries of every rank are in the assembled matrix.
C28_ReserveOnce ==
  /\ [](\A p \in Ranks :
          /\ n_reserve[p] <= 1
          /\ jacobian_matrix_first_assemble[p] => n_reserve[p] = 1
          /\ (mode = "jacobian" /\ pc[p] \notin {"Scatter", "RegionAssemble"})
               => n_reserve[p] = 1
          /\ ignore_zero_entries[p] =>
               /\ n_reserve[p] = 1
               /\ \A q \in Ranks, b \in DOMAIN BCs(mesh) :
                     BC_Jacobian_Reserve(q, b) \subseteq nz_pattern)
  /\ [][\A p \in Ranks :
          /\ jacobian_matrix_first_assemble[p] => jacobian_matrix_first_assemble'[p]
          /\ jacobian_matrix_first_assemble'[p] # jacobian_matrix_first_assemble[p]
               => mode = "jacobian" /\ pc[p] = "Scale" /\ pc'[p] = "Done"
          /\ n_reserve'[p] # n_reserve[p]
               => ~jacobian_matrix_first_assemble[p] /\ ~ignore_zero_entries[p]]_vars

\* a later Jacobian evaluation of the instance has run its region loop on a
\* rank whose flag an earlier evaluation set: nothing was reserved again
C28_Witness ==
  /\ mode = "jacobian"
  /\ n_solve = 1
  /\ \E p \in Ranks :
       /\ pc[p] = "WaitRegion"
       /\ jacobian_matrix_first_assemble[p]
       /\ ignore_zero_entries[p]
       /\ n_reserve[p] = 1
       /\ nz_stash[p] # {}
       /\ \E b \in DOMAIN BCs(mesh) : BC_Jacobian_Reserve(p, b) # {}

\* ------------------------------------------------------------------------
\* The electrode in each of its modes: stand-alone (voltage or current
\* driven) and inter-connect
\* ------------------------------------------------------------------------
ElectrodeInit ==
  /\ create_solver({"ohmic", "iface2"}, "created")
  /\ inter_connect \in (IF mesh = "ohmic" THEN BOOLEAN ELSE {FALSE})
  /\ z_width = 1
  /\ enable_T = [ Tl |-> FALSE, Tn |-> FALSE, Tp |-> FALSE ]
  /\ snes_x = << >>
  /\ snes_y = << >>
  /\ snes_w = << >>
  /\ changed_y = FALSE
  /\ changed_w = FALSE
  /\ applied = << >>
  /\ LTE = no_LTE
  /\ no_boundary_node
  /\ no_stencil

ElectrodeSpec == ElectrodeInit /\ [][Next]_vars

\* the value boundary b adds to a row on rank p, at the local unknowns xl
\* and with the conduction currents of buffer
FunctionRow(p, b, xl, buffer, row) ==
  LET eq == BC_Function(p, b, xl, buffer)
  IN SumOver([ i \in DOMAIN eq |-> eq[i][2] ], { i \in DOMAIN eq : eq[i][1] = row })

\* the change of that value when local unknown k grows by one (the boundary
\* equations are affine in the unknowns, the difference is the derivative)
dFunctionRow(p, b, row, k) ==
  FunctionRow(p, b, [ lx[p] EXCEPT ![k] = @ + 1 ], << >>, row)
    - FunctionRow(p, b, lx[p], << >>, row)

\* the entry boundary b adds to J at (row, col) beyond the buffered
\* conduction current derivatives
JacobianAt(p, b, row, col) ==
  LET jj == BC_Jacobian(p, b, lx[p], << >>)
  IN SumOver([ i \in DOMAIN jj |-> jj[i][3] ],
             { i \in DOMAIN jj : jj[i][1] = row /\ jj[i][2] = col })

\* the Jacobian entries boundary b adds to the row are the derivatives of
\* what its residual variant adds to the row
RowMirrored(p, b, row) ==
  \A k \in 0..(n_local_dofs(p) - 1) :
     JacobianAt(p, b, row, LocalToGlobal(p, k)) = dFunctionRow(p, b, row, k)

\* the buffered derivatives of the conduction current carry the factor the
\* residual gives the conduction current
ConductionMirrored(p, b) ==
  LET bc  == bc_global_offset(b)
      dI  == FunctionRow(p, b, lx[p], << 1 >>, bc) - FunctionRow(p, b, lx[p], << >>, bc)
      own == { region_nodes(bc_nodes(b)[k])[1] :
                 k \in { j \in DOMAIN bc_nodes(b) : processor_id[bc_nodes(b)[j]] = p } }
  IN Range(jac_buffer[p][b]) =
       UNION { { << col, dI * (J[<< global_offset(f) + 1, col >>]
                                 - J[<< global_offset(f) + 2, col >>]) >> :
                   col \in UNION { NodeCols(g) : g \in {f} \cup Neighbors(mesh, f) } }
               : f \in own }

\* C24 (as stated): for every boundary equation the Jacobian entries of a
\* row are the derivatives of the expression the residual variant writes to
\* that row; the conduction and the displacement current of the electrode
\* equation carry the same factor in both, in every electrode mode.
C24_JacobianMirrorsResidual ==
  \A p \in Ranks : \A b \in DOMAIN BCs(mesh) :
    /\ (mode = "jacobian" /\ pc[p] = "WaitBoundary")
         => \A row \in BoundaryRows(p, b) : RowMirrored(p, b, row)
    /\ (mode = "jacobian" /\ pc[p] = "RowSurgery" /\ HasCircuit(mesh, b))
         => ConductionMirrored(p, b)

\* C24 (what the code does): the same, but for the displacement current of
\* an inter-connect electrode whose circuit is voltage driven in a
\* transient simulation, where the Jacobian applies the two factors
\* R and L/dt+R one after the other
C24_MirrorsButInterConnectDisplacement ==
  \A p \in Ranks : \A b \in DOMAIN BCs(mesh) :
    /\ (mode = "jacobian" /\ pc[p] = "WaitBoundary")
         => \A row \in BoundaryRows(p, b) :
               \/ RowMirrored(p, b, row)
               \/ /\ row = bc_global_offset(b)
                  /\ inter_connect /\ TimeDependent
                  /\ ext_circuit[p].driven = "voltage"
                  /\ \A k \in 0..(n_local_dofs(p) - 1) :
                        JacobianAt(p, b, row, LocalToGlobal(p, k)) # dFunctionRow(p, b, row, k)
                          => /\ LocalToGlobal(p, k) # bc_global_offset(b)
                             /\ JacobianAt(p, b, row, LocalToGlobal(p, k))
                                  = ((ext_circuit[p].L \div dt) + ext_circuit[p].R)
                                      * dFunctionRow(p, b, row, k)
    /\ (mode = "jacobian" /\ pc[p] = "RowSurgery" /\ HasCircuit(mesh, b))
         => ConductionMirrored(p, b)

\* the Jacobian of an inter-connect electrode in a transient simulation has
\* been assembled and its displacement entries are not the derivatives of
\* the residual
C24_Witness ==
  /\ mode = "jacobian"
  /\ inter_connect /\ TimeDependent
  /\ \E p \in Ranks : \E b \in DOMAIN BCs(mesh) :
       /\ pc[p] = "WaitBoundary"
       /\ HasCircuit(mesh, b)
       /\ ~RowMirrored(p, b, bc_global_offset(b))
       /\ \E k \in 0..(n_local_dofs(p) - 1) : dFunctionRow(p, b, bc_global_offset(b), k) # 0

\* ------------------------------------------------------------------------
\* C26: the row-surgery triples of one assembly pass
\* ------------------------------------------------------------------------
\* the source, destination and clear rows emitted in the pass, taken over
\* the boundary conditions of every rank together
AllSrcRows   == UNION { Range(surgery[p].src_row)   : p \in Ranks }
AllDstRows   == UNION { Range(surgery[p].dst_row)   : p \in Ranks }
AllClearRows == UNION { Range(surgery[p].clear_row) : p \in Ranks }

Reversed(s) == [ i \in 1..Len(s) |-> s[Len(s) + 1 - i] ]

FreshConduction(p, b) ==
  LET owned == ForEach([ k \in DOMAIN bc_nodes(b) |->
                 IF processor_id[bc_nodes(b)[k]] # p THEN << >>
                 ELSE region_nodes(bc_nodes(b)[k]) ], DOMAIN bc_nodes(b))
  IN ForEach([ k \in DOMAIN owned |->
       IF TypeOf(mesh, owned[k]) = "SemiconductorRegion"
       THEN << original[global_offset(owned[k]) + 1]
                 - original[global_offset(owned[k]) + 2] >>
       ELSE << >> ], DOMAIN owned)

\* the electrode-row value of the residual as a function of the present
\* unknowns and the committed circuit state alone
ElectrodeRowValue(b) ==
  SumOver([ p \in Ranks |->
            LET eq == Ohmic_CircuitEquation(p, b, VecScatter(p, x), FreshConduction(p, b))
            IN SumOver([ k \in DOMAIN eq |-> eq[k][2] ], DOMAIN eq) ], Ranks)

\* C27: in every residual evaluation the current buffer a rank hands to the
\* circuit equation holds exactly the continuity-row differences of this
\* evaluation's finalized region pass, and the assembled electrode row is
\* the value determined by the present unknowns alone, whatever evaluations
\* came before.
C27_CurrentOfThisEvaluation ==
  mode = "residual" =>
    \A b \in DOMAIN BCs(mesh) :
      HasCircuit(mesh, b) =>
        /\ \A p \in Ranks :
             pc[p] \in {"RowSurgery", "BoundaryAssemble"}
               => current_buffer[p][b] = FreshConduction(p, b)
        /\ (\A p \in Ranks : pc[p] = "Scale")
               => r[bc_global_offset(b)] = ElectrodeRowValue(b)

\* the residual is evaluated again after a Newton step of a transient solve:
\* the boundary pass is finished, an earlier evaluation has left conduction
\* and displacement terms behind, and the electrode current is not zero
C27_Witness ==
  /\ mode = "residual"
  /\ iter = 1
  /\ TimeDependent
  /\ \A p \in Ranks : pc[p] = "Scale"
  /\ \E b \in DOMAIN BCs(mesh) :
       /\ HasCircuit(mesh, b)
       /\ \E p \in Ranks :
            /\ Len(current_buffer[p][b]) > Len(FreshConduction(p, b))
            /\ SumSeq(FreshConduction(p, b)) # 0
       /\ r[bc_global_offset(b)] # 0

\* ------------------------------------------------------------------------
\* C29: the row scaling of the residual and of the Jacobian
\* ------------------------------------------------------------------------
\* what the nonlinear solver receives: the assembled entries times the
\* factor the evaluation applied to their row
ReturnedResidual == [ row \in Rows(mesh) |-> scaled.r_by[row] * r[row] ]
ReturnedJacobian == [ rc \in DOMAIN J |-> scaled.J_by[rc[1]] * J[rc] ]

\* C29: the residual handed back is the assembled one times L row by row,
\* the Jacobian handed back after it at the same iterate is the assembled
\* one times the same L row by row, and L does not change while the solve
\* iterates.
C29_SameScaling ==
  /\ [](/\ (mode = "none" /\ solve = "iterating"
               /\ last_call \in {"build_petsc_sens_residual", "flush_system"})
             => \A row \in Rows(mesh) : ReturnedResidual[row] = Ld[row] * r[row]
        /\ (mode = "none" /\ solve = "iterating"
               /\ last_call = "build_petsc_sens_jacobian")
             => /\ \A rc \in DOMAIN J : ReturnedJacobian[rc] = Ld[rc[1]] * J[rc]
                /\ \A row \in Rows(mesh) :
                     /\ ReturnedResidual[row] = Ld[row] * r[row]
                     /\ scaled.r_by[row] = scaled.J_by[row]
                     /\ scaled.J_by[row] = Ld[row])
  /\ [][(solve = "iterating" /\ solve' = "iterating") => Ld' = Ld]_vars

\* on two ranks the Jacobian has been handed back after the residual at the
\* same iterate; a row of each rank has a scaling factor other than one and
\* nonzero residual and diagonal entries
C29_Witness ==
  /\ n_processors = 2
  /\ mode = "none"
  /\ solve = "iterating"
  /\ last_call = "build_petsc_sens_jacobian"
  /\ \A p \in Ranks :
       \E row \in OwnedRows(p) :
         /\ Ld[row] > 1
         /\ r[row] # 0
         /\ J[<< row, row >>] # 0
         /\ ReturnedResidual[row] # r[row]
         /\ ReturnedJacobian[<< row, row >>] # J[<< row, row >>]

\* ------------------------------------------------------------------------
\* The two preprocess functions of a boundary condition on one boundary
\* node: the regions that share the node, in priority order (fvm_nodes[0]
\* is the reference), and the temperature equations of the advanced model
\* ------------------------------------------------------------------------
AllModels == [ Tl : BOOLEAN, Tn : BOOLEAN, Tp : BOOLEAN ]

\* enum SolutionVariable
SolutionVariable(var) ==
  CASE var = "POTENTIAL"   -> 0
    [] var = "ELECTRON"    -> 1
    [] var = "HOLE"        -> 2
    [] var = "TEMPERATURE" -> 3
    [] var = "E_TEMP"      -> 4
    [] var = "H_TEMP"      -> 5

\* the variables a region solves for under the advanced model m
region_variables(type, m) ==
  IF type = "SemiconductorRegion"
  THEN {"POTENTIAL", "ELECTRON", "HOLE"}
         \cup (IF m.Tl THEN {"TEMPERATURE"} ELSE {})
         \cup (IF m.Tn THEN {"E_TEMP"} ELSE {})
         \cup (IF m.Tp THEN {"H_TEMP"} ELSE {})
  ELSE IF type \in {"ElectrodeRegion", "InsulatorRegion"}
  THEN {"POTENTIAL"} \cup (IF m.Tl THEN {"TEMPERATURE"} ELSE {})
  ELSE {}

\* variant: the offset of a variable is its enum value, solved for or not
ebm_variable_offset_enum(type, m, var) == SolutionVariable(var)

\* SimulationRegion::ebm_variable_offset: the variables a region solves for
\* are stored in enum order
ebm_variable_offset(type, m, var) ==
  Cardinality({ v \in region_variables(type, m) :
                  SolutionVariable(v) < SolutionVariable(var) })

\* the global offset of the FVM node of the i-th region at the node: the
\* blocks of the FVM nodes follow each other
node_global_offset(nd, i) ==
  SumOver([ j \in 1..Len(nd.regions) |->
              Cardinality(region_variables(nd.regions[j], nd.model)) ],
          1..(i - 1))

Triple(parts) ==
  [ src_row   |-> ForEach([ k \in DOMAIN parts |-> parts[k].src_row ], DOMAIN parts),
    dst_row   |-> ForEach([ k \in DOMAIN parts |-> parts[k].dst_row ], DOMAIN parts),
    clear_row |-> ForEach([ k \in DOMAIN parts |-> parts[k].clear_row ], DOMAIN parts) ]

\* OhmicContactBC::EBM3_Function_Preprocess at one boundary node
OhmicContactBC_EBM3_Function_Preprocess(nd) ==
  IF ~nd.on_processor THEN EmptyTriple
  ELSE Triple([ i \in 1..Len(nd.regions) |->
    LET g == node_global_offset(nd, i)
    IN IF nd.regions[i] = "SemiconductorRegion"
       THEN [ src_row |-> << >>, dst_row |-> << >>,
              clear_row |-> << g + 0, g + 1, g + 2 >>
                \o (IF nd.model.Tn
                    THEN << g + ebm_variable_offset(nd.regions[i], nd.model, "E_TEMP") >>
                    ELSE << >>)
                \o (IF nd.model.Tp
                    THEN << g + ebm_variable_offset(nd.regions[i], nd.model, "H_TEMP") >>
                    ELSE << >>) ]
       ELSE IF nd.regions[i] \in {"ElectrodeRegion", "InsulatorRegion"}
       THEN IF nd.model.Tl
            THEN [ src_row   |-> << g + 1 >>,
                   dst_row   |-> << node_global_offset(nd, 1)
                                     + ebm_variable_offset(nd.regions[1], nd.model,
                                                           "TEMPERATURE") >>,
                   clear_row |-> << g + 0, g + 1 >> ]
            ELSE [ src_row |-> << >>, dst_row |-> << >>, clear_row |-> << g + 0 >> ]
       ELSE EmptyTriple ])

\* variant: the Jacobian preprocess leaves the carrier-temperature rows alone
OhmicContactBC_EBM3_Jacobian_Preprocess_no_Tn_Tp(nd) ==
  IF ~nd.on_processor THEN EmptyTriple
  ELSE Triple([ i \in 1..Len(nd.regions) |->
    LET row == node_global_offset(nd, i)
    IN IF nd.regions[i] = "SemiconductorRegion"
       THEN [ src_row |-> << >>, dst_row |-> << >>,
              clear_row |->
                << row + ebm_variable_offset(nd.regions[i], nd.model, "POTENTIAL"),
                   row + ebm_variable_offset(nd.regions[i], nd.model, "ELECTRON"),
                   row + ebm_variable_offset(nd.regions[i], nd.model, "HOLE") >> ]
       ELSE IF nd.regions[i] \in {"ElectrodeRegion", "InsulatorRegion"}
       THEN IF nd.model.Tl
            THEN [ src_row   |-> << row + ebm_variable_offset(nd.regions[i], nd.model,
                                                              "TEMPERATURE") >>,
                   dst_row   |-> << node_global_offset(nd, 1)
                                     + ebm_variable_offset(nd.regions[1], nd.model,
                                                           "TEMPERATURE") >>,
                   clear_row |->
                     << row + ebm_variable_offset(nd.regions[i], nd.model, "POTENTIAL"),
                        row + ebm_variable_offset(nd.regions[i], nd.model,
                                                  "TEMPERATURE") >> ]
            ELSE [ src_row |-> << >>, dst_row |-> << >>,
                   clear_row |->
                     << row + ebm_variable_offset(nd.regions[i], nd.model,
                                                  "POTENTIAL") >> ]
       ELSE EmptyTriple ])

\* OhmicContactBC::EBM3_Jacobian_Preprocess at one boundary node (the rows;
\* the electrode-row entries it buffers are in Ohmic_Jacobian_Preprocess)
OhmicContactBC_EBM3_Jacobian_Preprocess(nd) ==
  IF ~nd.on_processor THEN EmptyTriple
  ELSE Triple([ i \in 1..Len(nd.regions) |->
    LET row == node_global_offset(nd, i)
    IN IF nd.regions[i] = "SemiconductorRegion"
       THEN [ src_row |-> << >>, dst_row |-> << >>,
              clear_row |->
                << row + ebm_variable_offset(nd.regions[i], nd.model, "POTENTIAL"),
                   row + ebm_variable_offset(nd.regions[i], nd.model, "ELECTRON"),
                   row + ebm_variable_offset(nd.regions[i], nd.model, "HOLE") >>
                \o (IF nd.model.Tn
                    THEN << row + ebm_variable_offset(nd.regions[i], nd.model, "E_TEMP") >>
                    ELSE << >>)
                \o (IF nd.model.Tp
                    THEN << row + ebm_variable_offset(nd.regions[i], nd.model, "H_TEMP") >>
                    ELSE << >>) ]
       ELSE IF nd.regions[i] \in {"ElectrodeRegion", "InsulatorRegion"}
       THEN IF nd.model.Tl
            THEN [ src_row   |-> << row + ebm_variable_offset(nd.regions[i], nd.model,
                                                              "TEMPERATURE") >>,
                   dst_row   |-> << node_global_offset(nd, 1)
                                     + ebm_variable_offset(nd.regions[1], nd.model,
                                                           "TEMPERATURE") >>,
                   clear_row |->
                     << row + ebm_variable_offset(nd.regions[i], nd.model, "POTENTIAL"),
                        row + ebm_variable_offset(nd.regions[i], nd.model,
                                                  "TEMPERATURE") >> ]
            ELSE [ src_row |-> << >>, dst_row |-> << >>,
                   clear_row |->
                     << row + ebm_variable_offset(nd.regions[i], nd.model,
                                                  "POTENTIAL") >> ]
       ELSE EmptyTriple ])

\* HomoInterfaceBC::DDM1_Function_Preprocess at one boundary node
HomoInterfaceBC_DDM1_Function_Preprocess(nd) ==
  IF ~nd.on_processor THEN EmptyTriple
  ELSE Triple([ i \in 1..Len(nd.regions) |->
    LET gi == node_global_offset(nd, i)
        g0 == node_global_offset(nd, 1)
    IN IF i = 1 THEN EmptyTriple
       ELSE IF nd.regions[i] = "SemiconductorRegion"
       THEN [ src_row   |-> << gi + 0, gi + 1, gi + 2 >>,
              dst_row   |-> << g0 + 0, g0 + 1, g0 + 2 >>,
              clear_row |-> << gi + 0, gi + 1, gi + 2 >> ]
       ELSE [ src_row   |-> << gi + 0 >>,
              dst_row   |-> << g0 + 0 >>,
              clear_row |-> << gi + 0 >> ] ])

\* HomoInterfaceBC::DDM1_Jacobian_Preprocess at one boundary node
HomoInterfaceBC_DDM1_Jacobian_Preprocess(nd) ==
  IF ~nd.on_processor THEN EmptyTriple
  ELSE Triple([ i \in 1..Len(nd.regions) |->
    LET gi == node_global_offset(nd, i)
        g0 == node_global_offset(nd, 1)
    IN IF i = 1 THEN EmptyTriple
       ELSE IF nd.regions[i] = "SemiconductorRegion"
       THEN [ src_row   |-> << gi + 0, gi + 1, gi + 2 >>,
              dst_row   |-> << g0 + 0, g0 + 1, g0 + 2 >>,
              clear_row |-> << gi + 0, gi + 1, gi + 2 >> ]
       ELSE [ src_row   |-> << gi + 0 >>,
              dst_row   |-> << g0 + 0 >>,
              clear_row |-> << gi + 0 >> ] ])

\* the boundary nodes explored: an ohmic contact of the EBM3 solver under
\* every advanced model, a homo interface of the DDM1 solver
BoundaryNodes ==
  [ bc : {"OhmicContact"},
    regions : { << "SemiconductorRegion" >>,
                << "SemiconductorRegion", "ElectrodeRegion" >>,
                << "SemiconductorRegion", "InsulatorRegion" >>,
                << "SemiconductorRegion", "ElectrodeRegion", "InsulatorRegion" >>,
                << "SemiconductorRegion", "VacuumRegion" >>,
                << "SemiconductorRegion", "SemiconductorRegion", "InsulatorRegion" >> },
    model : AllModels,
    on_processor : BOOLEAN ]
  \cup
  [ bc : {"HomoInterface"},
    regions : { << "SemiconductorRegion", "SemiconductorRegion" >>,
                << "SemiconductorRegion", "InsulatorRegion" >>,
                << "SemiconductorRegion", "SemiconductorRegion",
                   "SemiconductorRegion" >>,
                << "SemiconductorRegion", "SemiconductorRegion", "InsulatorRegion" >> },
    model : { [ Tl |-> FALSE, Tn |-> FALSE, Tp |-> FALSE ] },
    on_processor : BOOLEAN ]

\* the residual pass runs the boundary condition's Function_Preprocess
Function_Preprocess ==
  /\ bd_node.bc # "none"
  /\ "Function_Preprocess" \notin pre_rows.called
  /\ pre_rows' = [ pre_rows EXCEPT
       !.called = @ \cup {"Function_Preprocess"},
       !.function = IF bd_node.bc = "OhmicContact"
                    THEN OhmicContactBC_EBM3_Function_Preprocess(bd_node)
                    ELSE HomoInterfaceBC_DDM1_Function_Preprocess(bd_node) ]
  /\ UNCHANGED << bd_node, ad_vars, damping_vars, solver_vars, collectives >>

\* the Jacobian pass runs the boundary condition's Jacobian_Preprocess
Jacobian_Preprocess ==
  /\ bd_node.bc # "none"
  /\ "Jacobian_Preprocess" \notin pre_rows.called
  /\ pre_rows' = [ pre_rows EXCEPT
       !.called = @ \cup {"Jacobian_Preprocess"},
       !.jacobian = IF bd_node.bc = "OhmicContact"
                    THEN OhmicContactBC_EBM3_Jacobian_Preprocess(bd_node)
                    ELSE HomoInterfaceBC_DDM1_Jacobian_Preprocess(bd_node) ]
  /\ UNCHANGED << bd_node, ad_vars, damping_vars, solver_vars, collectives >>

\* the solver is created on one rank and left alone
solver_at_rest ==
  /\ create_solver({"ohmic"}, "created")
  /\ n_processors = 1
  /\ inter_connect = FALSE
  /\ z_width = 1
  /\ ~TimeDependent
  /\ ext_circuit[0] = Circuit("voltage", 0, 0, 0)
  /\ enable_T = [ Tl |-> FALSE, Tn |-> FALSE, Tp |-> FALSE ]
  /\ snes_x = << >>
  /\ snes_y = << >>
  /\ snes_w = << >>
  /\ changed_y = FALSE
  /\ changed_w = FALSE
  /\ applied = << >>
  /\ LTE = no_LTE

PreprocessInit ==
  /\ solver_at_rest
  /\ no_stencil
  /\ bd_node \in BoundaryNodes
  /\ pre_rows = [ called |-> {}, function |-> EmptyTriple, jacobian |-> EmptyTriple ]

PreprocessSpec == PreprocessInit /\ [][Function_Preprocess \/ Jacobian_Preprocess]_vars

\* the merges and the cleared rows of a triple
Merges(t)  == { << t.src_row[k], t.dst_row[k] >> : k \in DOMAIN t.src_row }
Cleared(t) == Range(t.clear_row)

\* C25: once both preprocess functions of a boundary condition have run on
\* a boundary node, they have emitted the same source rows, the same
\* destination rows, the same (source, destination) merges and the same
\* clear rows, for every region type at the node and every combination of
\* enabled temperature equations.
C25_SameTriples ==
  pre_rows.called = {"Function_Preprocess", "Jacobian_Preprocess"} =>
    /\ Range(pre_rows.function.src_row) = Range(pre_rows.jacobian.src_row)
    /\ Range(pre_rows.function.dst_row) = Range(pre_rows.jacobian.dst_row)
    /\ Merges(pre_rows.function) = Merges(pre_rows.jacobian)
    /\ Cleared(pre_rows.function) = Cleared(pre_rows.jacobian)
    /\ Len(pre_rows.function.src_row) = Len(pre_rows.function.dst_row)
    /\ Len(pre_rows.jacobian.src_row) = Len(pre_rows.jacobian.dst_row)

\* both functions have run on an ohmic contact node shared by a
\* semiconductor, an electrode and an insulator region with all three
\* temperature equations enabled: two lattice-temperature rows are merged
\* into the semiconductor's and carrier-temperature rows are cleared
C25_Witness ==
  /\ pre_rows.called = {"Function_Preprocess", "Jacobian_Preprocess"}
  /\ bd_node.bc = "OhmicContact"
  /\ bd_node.on_processor
  /\ Len(bd_node.regions) = 3
  /\ bd_node.model = [ Tl |-> TRUE, Tn |-> TRUE, Tp |-> TRUE ]
  /\ Cardinality(Merges(pre_rows.jacobian)) = 2
  /\ Cardinality(Cleared(pre_rows.function)) = 9
  /\ node_global_offset(bd_node, 1)
       + ebm_variable_offset("SemiconductorRegion", bd_node.model, "H_TEMP")
       \in Cleared(pre_rows.jacobian)

\* ------------------------------------------------------------------------
\* The Jacobian routines as the automatic differentiation sees them: each
\* routine is the sequence of its statements that set the direction count
\* (AutoDScalar::numdir), seed an unknown (setADValue), evaluate a
\* differentiated expression whose derivative vector goes to the matrix
\* columns of the stencil, or leave the scope of the seeded variables
\* ------------------------------------------------------------------------
MaxRoutines == 2

SetNumdir(k) == [ op |-> "set",   n |-> k, u |-> << >>, d |-> 0, uses |-> {}, cols |-> 0 ]
AddNumdir(k) == [ op |-> "add",   n |-> k, u |-> << >>, d |-> 0, uses |-> {}, cols |-> 0 ]
Seed(v, k)   == [ op |-> "seed",  n |-> 0, u |-> v,     d |-> k, uses |-> {}, cols |-> 0 ]
\* AutoDScalar(J_edge, order, 6): the six derivatives of a buffered edge flux
\* of the nodes a and b are placed at the directions 3a+k and 3b+k
Remap(a, b)  == [ op |-> "remap", n |-> 0, u |-> << a, b >>, d |-> 0, uses |-> {}, cols |-> 0 ]
Evaluate(vs, c) == [ op |-> "eval", n |-> 0, u |-> << >>, d |-> 0, uses |-> vs, cols |-> c ]
EndScope     == [ op |-> "scope", n |-> 0, u |-> << >>, d |-> 0, uses |-> {}, cols |-> 0 ]

NodeUnknowns(nd) == { << "V", nd >>, << "n", nd >>, << "p", nd >> }

\* MetalSimulationRegion::DDM1_Jacobian: one count for the whole edge loop
Metal_AD(rt) ==
  << SetNumdir(2) >>
    \o ForEach([ e \in 1..rt.n_nodes |->
         << Seed(<< "V", 1 >>, 0), Seed(<< "V", 2 >>, 1),
            Evaluate({ << "V", 1 >>, << "V", 2 >> }, 2),
            EndScope >> ], 1..rt.n_nodes)

\* SemiconductorSimulationRegion::DDM1_Jacobian, the edge loop: the fluxes
\* of an edge go to Jn_edge_buffer and Jp_edge_buffer
Semiconductor_Edge_AD ==
  << SetNumdir(6),
     Seed(<< "V", 1 >>, 0), Seed(<< "n", 1 >>, 1), Seed(<< "p", 1 >>, 2),
     Seed(<< "V", 2 >>, 3), Seed(<< "n", 2 >>, 4), Seed(<< "p", 2 >>, 5),
     Evaluate(NodeUnknowns(1) \cup NodeUnknowns(2), 6),
     EndScope >>

\* the edges of a cell of n nodes, by the cell's node numbers 0..n-1
ElemEdges(n) == { ab \in (0..(n - 1)) \X (0..(n - 1)) : ab[1] < ab[2] }
EdgeSeq(n) ==
  ForEach([ k \in 0..(n * n - 1) |->
            IF << k \div n, k % n >> \in ElemEdges(n)
            THEN << << k \div n, k % n >> >> ELSE << >> ], 0..(n * n - 1))

\* the cell loop of DDM1_Jacobian, one cell: rt.n_nodes nodes; with
\* high-field mobility the field in the cell is differentiated, and on an
\* insulator interface (ESurface) the field of the neighbour cell as well
Semiconductor_Cell_AD(rt) ==
  LET n    == rt.n_nodes
      insul == rt.highfield_mob /\ rt.insulator_interface
      cols == 3 * n + (IF insul THEN rt.n_insul ELSE 0)
      cellV == { << "V", nd >> : nd \in 0..(n - 1) }
      cellU == UNION { NodeUnknowns(nd) : nd \in 0..(n - 1) }
      nbV  == { << "V_neighbor", nd >> : nd \in 0..(rt.n_insul - 1) }
      field == IF rt.self_consistently THEN cellU ELSE cellV
  IN << SetNumdir(3 * n) >>
     \o (IF ~rt.highfield_mob THEN << >>
         ELSE ForEach([ nd \in 0..(n - 1) |->
                << Seed(<< "V", nd >>, 3 * nd + 0) >>
                \o (IF rt.self_consistently
                    THEN << Seed(<< "n", nd >>, 3 * nd + 1),
                            Seed(<< "p", nd >>, 3 * nd + 2) >>
                    ELSE << >>) ], 0..(n - 1))
              \o << Evaluate(field, cols) >>)
     \o (IF ~insul THEN << >>
         ELSE ForEach([ nd \in 0..(rt.n_insul - 1) |->
                << Seed(<< "V_neighbor", nd >>, 3 * n + nd) >> ],
                0..(rt.n_insul - 1))
              \o << Evaluate(nbV, cols),
                    AddNumdir(1 * rt.n_insul),
                    Evaluate(field \cup nbV, cols) >>)
     \o ForEach([ e \in 1..Len(EdgeSeq(n)) |->
          LET a == EdgeSeq(n)[e][1]
              b == EdgeSeq(n)[e][2]
          IN << Seed(<< "V", a >>, 3 * a + 0), Seed(<< "V", b >>, 3 * b + 0) >>
             \o (IF rt.highfield_mob
                 THEN << Seed(<< "n", a >>, 3 * a + 1), Seed(<< "p", a >>, 3 * a + 2),
                         Seed(<< "n", b >>, 3 * b + 1), Seed(<< "p", b >>, 3 * b + 2),
                         Evaluate(NodeUnknowns(a) \cup NodeUnknowns(b) \cup field
                                    \cup (IF insul THEN nbV ELSE {}), cols) >>
                 ELSE << >>)
             \o << Remap(a, b),
                   Evaluate(NodeUnknowns(a) \cup NodeUnknowns(b), cols) >> ],
          1..Len(EdgeSeq(n)))
     \o << EndScope >>

\* the node loop of DDM1_Jacobian: recombination and space charge
Semiconductor_Node_AD ==
  << SetNumdir(3),
     Seed(<< "V", 0 >>, 0), Seed(<< "n", 0 >>, 1), Seed(<< "p", 0 >>, 2),
     Evaluate(NodeUnknowns(0), 3),
     EndScope >>

\* SemiconductorSimulationRegion::DDM1_Time_Dependent_Jacobian: one
\* direction; each of the two expressions has one unknown
Time_Dependent_AD ==
  << SetNumdir(1),
     Seed(<< "n", 0 >>, 0), Seed(<< "p", 0 >>, 0),
     Evaluate({ << "n", 0 >> }, 1),
     Evaluate({ << "p", 0 >> }, 1),
     EndScope >>

\* HomoInterfaceBC::DDM1_Jacobian at an FVM node of a semiconductor or of
\* an insulator region
HomoInterface_AD(rt) ==
  IF rt.region = "SemiconductorRegion"
  THEN << SetNumdir(6),
          Seed(<< "V", 1 >>, 0), Seed(<< "n", 1 >>, 1), Seed(<< "p", 1 >>, 2),
          Seed(<< "V", 0 >>, 3), Seed(<< "n", 0 >>, 4), Seed(<< "p", 0 >>, 5),
          Evaluate(NodeUnknowns(0) \cup NodeUnknowns(1), 6),
          EndScope >>
  ELSE << SetNumdir(2),
          Seed(<< "V", 1 >>, 0), Seed(<< "V", 0 >>, 1),
          Evaluate({ << "V", 0 >>, << "V", 1 >> }, 2),
          EndScope >>

\* OhmicContactBC::EBM3_Jacobian at a contact node: the semiconductor FVM
\* node (node equations, then the displacement current towards each
\* neighbour in a transient solve), then an electrode or insulator FVM node
Ohmic_AD(rt) ==
  LET type == "SemiconductorRegion"
      n_node_var == Cardinality(region_variables(type, rt.model))
      own == NodeUnknowns(0)
               \cup (IF rt.model.Tl THEN { << "T", 0 >> } ELSE {})
               \cup (IF rt.model.Tn THEN { << "nTn", 0 >> } ELSE {})
               \cup (IF rt.model.Tp THEN { << "pTp", 0 >> } ELSE {})
               \cup { << "Ve", 0 >> }
  IN << SetNumdir(n_node_var + 1),
        Seed(<< "V", 0 >>, ebm_variable_offset(type, rt.model, "POTENTIAL")),
        Seed(<< "n", 0 >>, ebm_variable_offset(type, rt.model, "ELECTRON")),
        Seed(<< "p", 0 >>, ebm_variable_offset(type, rt.model, "HOLE")) >>
     \o (IF rt.model.Tl
         THEN << Seed(<< "T", 0 >>, ebm_variable_offset(type, rt.model, "TEMPERATURE")) >>
         ELSE << >>)
     \o (IF rt.model.Tn
         THEN << Seed(<< "nTn", 0 >>, ebm_variable_offset(type, rt.model, "E_TEMP")) >>
         ELSE << >>)
     \o (IF rt.model.Tp
         THEN << Seed(<< "pTp", 0 >>, ebm_variable_offset(type, rt.model, "H_TEMP")) >>
         ELSE << >>)
     \o << Seed(<< "Ve", 0 >>, n_node_var),
           Evaluate(own, n_node_var + 1) >>
     \o (IF rt.time_dependent
         THEN ForEach([ nb \in 1..rt.n_nodes |->
                << Seed(<< "V_nb", nb >>, 1),
                   Evaluate({ << "V", 0 >>, << "V_nb", nb >> }, 2) >> ],
                1..rt.n_nodes)
         ELSE << >>)
     \o << EndScope >>
     \o (IF rt.region \in {"ElectrodeRegion", "InsulatorRegion"}
         THEN << SetNumdir(2),
                 Seed(<< "V", 1 >>, 0), Seed(<< "V", 0 >>, 1),
                 Evaluate({ << "V", 0 >>, << "V", 1 >> }, 2),
                 EndScope >>
              \o (IF rt.model.Tl
                  THEN << Seed(<< "T", 1 >>, 0), Seed(<< "T", 0 >>, 1),
                          Evaluate({ << "T", 0 >>, << "T", 1 >> }, 2),
                          EndScope >>
                  ELSE << >>)
         ELSE << >>)

\* the routines explored and their stencils
no_model == [ Tl |-> FALSE, Tn |-> FALSE, Tp |-> FALSE ]
Routines ==
  [ name : {"MetalSimulationRegion::DDM1_Jacobian"}, n_nodes : {1, 2}, n_insul : {0},
    highfield_mob : {FALSE}, self_consistently : {FALSE}, insulator_interface : {FALSE},
    model : {no_model}, time_dependent : {FALSE}, region : {"MetalRegion"} ]
  \cup
  { rt \in [ name : {"SemiconductorSimulationRegion::DDM1_Jacobian"},
             n_nodes : {3, 4}, n_insul : {0, 3},
             highfield_mob : BOOLEAN, self_consistently : BOOLEAN,
             insulator_interface : BOOLEAN,
             model : {no_model}, time_dependent : {FALSE},
             region : {"SemiconductorRegion"} ] :
      /\ rt.insulator_interface <=> rt.n_insul > 0
      /\ ~rt.highfield_mob => ~rt.self_consistently }
  \cup
  [ name : {"SemiconductorSimulationRegion::DDM1_Time_Dependent_Jacobian"},
    n_nodes : {1}, n_insul : {0},
    highfield_mob : {FALSE}, self_consistently : {FALSE}, insulator_interface : {FALSE},
    model : {no_model}, time_dependent : {TRUE}, region : {"SemiconductorRegion"} ]
  \cup
  [ name : {"HomoInterfaceBC::DDM1_Jacobian"}, n_nodes : {1}, n_insul : {0},
    highfield_mob : {FALSE}, self_consistently : {FALSE}, insulator_interface : {FALSE},
    model : {no_model}, time_dependent : {FALSE},
    region : {"SemiconductorRegion", "InsulatorRegion"} ]
  \cup
  [ name : {"OhmicContactBC::EBM3_Jacobian"}, n_nodes : {1, 2}, n_insul : {0},
    highfield_mob : {FALSE}, self_consistently : {FALSE}, insulator_interface : {FALSE},
    model : Models, time_dependent : BOOLEAN,
    region : {"SemiconductorRegion", "InsulatorRegion"} ]

\* the statements of a routine, in program order
Statements(rt) ==
  CASE rt.name = "MetalSimulationRegion::DDM1_Jacobian" -> Metal_AD(rt)
    [] rt.name = "SemiconductorSimulationRegion::DDM1_Jacobian" ->
         Semiconductor_Edge_AD \o Semiconductor_Cell_AD(rt) \o Semiconductor_Node_AD
    [] rt.name = "SemiconductorSimulationRegion::DDM1_Time_Dependent_Jacobian" ->
         Time_Dependent_AD
    [] rt.name = "HomoInterfaceBC::DDM1_Jacobian" -> HomoInterface_AD(rt)
    [] rt.name = "OhmicContactBC::EBM3_Jacobian" -> Ohmic_AD(rt)
    [] OTHER -> << >>

Statement == Statements(ad_routine)[ad_pc]
AtStatement(o) ==
  /\ ad_pc \in 1..Len(Statements(ad_routine))
  /\ Statement.op = o
AD_unchanged == UNCHANGED << preprocess_vars, damping_vars, solver_vars, collectives >>

\* adtl::AutoDScalar::numdir = k
AD_SetNumdir ==
  /\ AtStatement("set")
  /\ numdir' = Statement.n
  /\ ad_pc' = ad_pc + 1
  /\ UNCHANGED << ad_routine, ad_live, ad_eval, ad_run >>
  /\ AD_unchanged

\* adtl::AutoDScalar::numdir += k
AD_AddNumdir ==
  /\ AtStatement("add")
  /\ numdir' = numdir + Statement.n
  /\ ad_pc' = ad_pc + 1
  /\ UNCHANGED << ad_routine, ad_live, ad_eval, ad_run >>
  /\ AD_unchanged

\* v.setADValue(d, 1.0), under the count in force
AD_Seed ==
  /\ AtStatement("seed")
  /\ ad_live' = ad_live \cup { [ u |-> Statement.u, d |-> Statement.d, numdir |-> numdir ] }
  /\ ad_pc' = ad_pc + 1
  /\ UNCHANGED << numdir, ad_routine, ad_eval, ad_run >>
  /\ AD_unchanged

\* AutoDScalar(J_edge, order, 6), under the count in force
AD_Remap ==
  /\ AtStatement("remap")
  /\ LET a == Statement.u[1]
         b == Statement.u[2]
         at(v, nd, k) == [ u |-> << v, nd >>, d |-> 3 * nd + k, numdir |-> numdir ]
     IN ad_live' = ad_live \cup { at("V", a, 0), at("n", a, 1), at("p", a, 2),
                                  at("V", b, 0), at("n", b, 1), at("p", b, 2) }
  /\ ad_pc' = ad_pc + 1
  /\ UNCHANGED << numdir, ad_routine, ad_eval, ad_run >>
  /\ AD_unchanged

\* a differentiated expression over seeded variables is evaluated, under
\* the count in force
AD_Evaluate ==
  /\ AtStatement("eval")
  /\ ad_eval' = [ at |-> ad_pc, numdir |-> numdir,
                  uses |-> { l \in ad_live : l.u \in Statement.uses },
                  cols |-> Statement.cols ]
  /\ ad_pc' = ad_pc + 1
  /\ UNCHANGED << numdir, ad_routine, ad_live, ad_run >>
  /\ AD_unchanged

\* the seeded variables of the stencil go out of scope
AD_EndScope ==
  /\ AtStatement("scope")
  /\ ad_live' = {}
  /\ ad_pc' = ad_pc + 1
  /\ UNCHANGED << numdir, ad_routine, ad_eval, ad_run >>
  /\ AD_unchanged

\* the next Jacobian routine starts with the count the last one left
AD_NextRoutine ==
  /\ ad_routine.name # "none"
  /\ ad_pc > Len(Statements(ad_routine))
  /\ ad_run < MaxRoutines
  /\ ad_routine' \in Routines
  /\ ad_pc' = 1
  /\ ad_live' = {}
  /\ ad_eval' = [ at |-> 0, numdir |-> 0, uses |-> {}, cols |-> 0 ]
  /\ ad_run' = ad_run + 1
  /\ UNCHANGED numdir
  /\ AD_unchanged

ADInit ==
  /\ solver_at_rest
  /\ no_boundary_node
  /\ numdir \in {0, 1}
  /\ ad_routine \in Routines
  /\ ad_pc = 1
  /\ ad_live = {}
  /\ ad_eval = [ at |-> 0, numdir |-> 0, uses |-> {}, cols |-> 0 ]
  /\ ad_run = 1

ADNext ==
  \/ AD_SetNumdir
  \/ AD_AddNumdir
  \/ AD_Seed
  \/ AD_Remap
  \/ AD_Evaluate
  \/ AD_EndScope
  \/ AD_NextRoutine

ADSpec == ADInit /\ [][ADNext]_vars

\* C23 (as stated): every differentiated evaluation runs under a direction
\* count equal to the number of distinct unknowns of its stencil (the
\* columns its derivative vector is written to), and no smaller than what
\* the directions of the seeded variables it uses require.
C23_CountIsStencilSize ==
  ad_eval.at > 0 =>
    /\ ad_eval.numdir = ad_eval.cols
    /\ \A l \in ad_eval.uses : l.d + 1 <= ad_eval.numdir

\* C30 (as stated): every seeding uses a direction below the count in force
\* when it seeds, and every seeded variable used in an evaluation has its
\* direction below the count in force at the evaluation.
C30_DirectionsBelowCount ==
  /\ \A l \in ad_live : l.d < l.numdir
  /\ \A l \in ad_eval.uses : l.d < ad_eval.numdir

\* what the code does about C23: the count differs from the stencil size in
\* the cell of a semiconductor region on an insulator interface, where the
\* fields are differentiated before the count is extended by the neighbour
\* cell's nodes, and in the displacement-current block of the ohmic
\* contact, which runs under the count of the node equations
C23_CountButTwoSites ==
  (ad_eval.at > 0 /\ ~C23_CountIsStencilSize) =>
    \/ /\ ad_routine.name = "SemiconductorSimulationRegion::DDM1_Jacobian"
       /\ ad_routine.highfield_mob
       /\ ad_routine.insulator_interface
       /\ ad_eval.numdir < ad_eval.cols
    \/ /\ ad_routine.name = "OhmicContactBC::EBM3_Jacobian"
       /\ ad_routine.time_dependent
       /\ ad_eval.cols = 2
       /\ ad_eval.numdir > ad_eval.cols
       /\ \A l \in ad_eval.uses : l.d < ad_eval.numdir

\* what the code does about C30: a direction at or beyond the count is
\* seeded and used only for the potentials of the neighbour cell across an
\* insulator interface
C30_BelowCountButNeighborCell ==
  /\ \A l \in ad_live : l.d >= l.numdir =>
       /\ l.u[1] = "V_neighbor"
       /\ ad_routine.highfield_mob /\ ad_routine.insulator_interface
  /\ \A l \in ad_eval.uses : l.d >= ad_eval.numdir => l.u[1] = "V_neighbor"

\* the field of the neighbour cell has been differentiated: its potentials
\* are seeded at the directions 3*n_nodes + nd while the count is 3*n_nodes
C30_NeighborCellField ==
  /\ ad_routine.name = "SemiconductorSimulationRegion::DDM1_Jacobian"
  /\ ad_eval.at > 0
  /\ ad_eval.numdir = 3 * ad_routine.n_nodes
  /\ ad_eval.uses # {}
  /\ \A l \in ad_eval.uses :
       l.u[1] = "V_neighbor" /\ l.d >= ad_eval.numdir /\ l.numdir = ad_eval.numdir

====
